---- MODULE Spec2Model ----
(***************************************************************************)
(* The accessibility signal pipeline of the compliance audit tool: the     *)
(* per-page audit of AccessibilityAuditor (check modules, stable issue     *)
(* IDs, ignore rules, summary), the suppression engine of ignore.js, and   *)
(* the statistics and grade computed from an audit result.                 *)
(*                                                                         *)
(* Strings whose characters matter (selectors, texts, URLs, IDs) are       *)
(* sequences of UTF-16 code units; names compared only for equality        *)
(* (category, type, severity, scope) are TLA+ strings, "" meaning unset.   *)
(***************************************************************************)
EXTENDS Integers, Sequences, FiniteSets, TLC

\* ------------------------------------------------------------------ bounds
\* Most findings one page yields, over all check modules together.
MaxFindings == 2
\* Longest ignore-rule list handed to shouldIgnore.
MaxRules == 2
\* Most pages audited in one run.
MaxPages == 2
\* Most changes of the live page while one audit runs.
MaxPageChanges == 1

\* ------------------------------------------------------- string constants
\* String literals of the code, as sequences of UTF-16 code units.
Lit ==
  [undefined |-> <<117, 110, 100, 101, 102, 105, 110, 101, 100>>,
   unspecified |-> <<117, 110, 115, 112, 101, 99, 105, 102, 105, 101, 100>>,
   https |-> <<104, 116, 116, 112, 115, 58, 47, 47>>,
   http |-> <<104, 116, 116, 112, 58, 47, 47>>,
   sep |-> <<124>>,
   skipA |-> <<67, 111, 110, 115, 105, 100, 101, 114, 32, 97, 100, 100, 105, 110, 103, 32, 105, 110, 116, 101, 114, 109, 101, 100, 105, 97, 116, 101, 32, 104, 101, 97, 100, 105, 110, 103, 32, 108, 101, 118, 101, 108, 115, 32, 98, 101, 116, 119, 101, 101, 110, 32, 72>>,
   skipB |-> <<32, 97, 110, 100, 32, 72>>,
   skipC |-> <<32, 102, 111, 114, 32, 98, 101, 116, 116, 101, 114, 32, 100, 111, 99, 117, 109, 101, 110, 116, 32, 115, 116, 114, 117, 99, 116, 117, 114, 101>>]
\* The category names hashed by makeId.
CatChars ==
  [semanticHTML |-> <<115, 101, 109, 97, 110, 116, 105, 99, 72, 84, 77, 76>>,
   ariaLabels |-> <<97, 114, 105, 97, 76, 97, 98, 101, 108, 115>>,
   keyboardNavigation |-> <<107, 101, 121, 98, 111, 97, 114, 100, 78, 97, 118, 105, 103, 97, 116, 105, 111, 110>>,
   images |-> <<105, 109, 97, 103, 101, 115>>,
   focusManagement |-> <<102, 111, 99, 117, 115, 77, 97, 110, 97, 103, 101, 109, 101, 110, 116>>,
   touchTargets |-> <<116, 111, 117, 99, 104, 84, 97, 114, 103, 101, 116, 115>>,
   focusOrder |-> <<102, 111, 99, 117, 115, 79, 114, 100, 101, 114>>,
   visionSimulation |-> <<118, 105, 115, 105, 111, 110, 83, 105, 109, 117, 108, 97, 116, 105, 111, 110>>,
   manualReview |-> <<109, 97, 110, 117, 97, 108, 82, 101, 118, 105, 101, 119>>,
   colorContrast |-> <<99, 111, 108, 111, 114, 67, 111, 110, 116, 114, 97, 115, 116>>]
\* The finding types the check modules emit, as hashed by makeId.
TypeChars ==
  [missing_h1 |-> <<109, 105, 115, 115, 105, 110, 103, 95, 104, 49>>,
   missing_main |-> <<109, 105, 115, 115, 105, 110, 103, 95, 109, 97, 105, 110>>,
   missing_nav |-> <<109, 105, 115, 115, 105, 110, 103, 95, 110, 97, 118>>,
   heading_skip_recommendation |-> <<104, 101, 97, 100, 105, 110, 103, 95, 115, 107, 105, 112, 95, 114, 101, 99, 111, 109, 109, 101, 110, 100, 97, 116, 105, 111, 110>>,
   missing_accessible_name |-> <<109, 105, 115, 115, 105, 110, 103, 95, 97, 99, 99, 101, 115, 115, 105, 98, 108, 101, 95, 110, 97, 109, 101>>,
   missing_skip_links |-> <<109, 105, 115, 115, 105, 110, 103, 95, 115, 107, 105, 112, 95, 108, 105, 110, 107, 115>>,
   missing_alt_text |-> <<109, 105, 115, 115, 105, 110, 103, 95, 97, 108, 116, 95, 116, 101, 120, 116>>,
   missing_focus_style |-> <<109, 105, 115, 115, 105, 110, 103, 95, 102, 111, 99, 117, 115, 95, 115, 116, 121, 108, 101>>,
   touch_target_too_small |-> <<116, 111, 117, 99, 104, 95, 116, 97, 114, 103, 101, 116, 95, 116, 111, 111, 95, 115, 109, 97, 108, 108>>,
   touch_target_below_recommended |-> <<116, 111, 117, 99, 104, 95, 116, 97, 114, 103, 101, 116, 95, 98, 101, 108, 111, 119, 95, 114, 101, 99, 111, 109, 109, 101, 110, 100, 101, 100>>,
   positive_tabindex |-> <<112, 111, 115, 105, 116, 105, 118, 101, 95, 116, 97, 98, 105, 110, 100, 101, 120>>,
   no_focusable_elements |-> <<110, 111, 95, 102, 111, 99, 117, 115, 97, 98, 108, 101, 95, 101, 108, 101, 109, 101, 110, 116, 115>>,
   text_over_image_manual_review |-> <<116, 101, 120, 116, 95, 111, 118, 101, 114, 95, 105, 109, 97, 103, 101, 95, 109, 97, 110, 117, 97, 108, 95, 114, 101, 118, 105, 101, 119>>,
   vision_simulation_failure |-> <<118, 105, 115, 105, 111, 110, 95, 115, 105, 109, 117, 108, 97, 116, 105, 111, 110, 95, 102, 97, 105, 108, 117, 114, 101>>,
   contrast_failure |-> <<99, 111, 110, 116, 114, 97, 115, 116, 95, 102, 97, 105, 108, 117, 114, 101>>,
   contrast_entry |-> <<99, 111, 110, 116, 114, 97, 115, 116, 95, 101, 110, 116, 114, 121>>,
   unspecified |-> <<117, 110, 115, 112, 101, 99, 105, 102, 105, 101, 100>>]
\* The message of each finding type (template messages instantiated once).
Msg ==
  [missing_h1 |-> <<78, 111, 32, 72, 49, 32, 104, 101, 97, 100, 105, 110, 103, 32, 102, 111, 117, 110, 100, 32, 111, 110, 32, 112, 97, 103, 101>>,
   missing_h1_hierarchy |-> <<80, 97, 103, 101, 32, 115, 104, 111, 117, 108, 100, 32, 104, 97, 118, 101, 32, 101, 120, 97, 99, 116, 108, 121, 32, 111, 110, 101, 32, 72, 49, 32, 104, 101, 97, 100, 105, 110, 103, 32, 97, 115, 32, 116, 104, 101, 32, 109, 97, 105, 110, 32, 112, 97, 103, 101, 32, 116, 105, 116, 108, 101>>,
   missing_main |-> <<78, 111, 32, 109, 97, 105, 110, 32, 108, 97, 110, 100, 109, 97, 114, 107, 32, 102, 111, 117, 110, 100>>,
   missing_nav |-> <<78, 111, 32, 110, 97, 118, 105, 103, 97, 116, 105, 111, 110, 32, 108, 97, 110, 100, 109, 97, 114, 107, 32, 102, 111, 117, 110, 100>>,
   missing_accessible_name |-> <<66, 85, 84, 84, 79, 78, 32, 101, 108, 101, 109, 101, 110, 116, 32, 119, 105, 116, 104, 111, 117, 116, 32, 97, 99, 99, 101, 115, 115, 105, 98, 108, 101, 32, 110, 97, 109, 101>>,
   missing_skip_links |-> <<78, 111, 32, 115, 107, 105, 112, 32, 108, 105, 110, 107, 115, 32, 102, 111, 117, 110, 100>>,
   missing_alt_text |-> <<73, 109, 97, 103, 101, 32, 109, 105, 115, 115, 105, 110, 103, 32, 97, 108, 116, 32, 97, 116, 116, 114, 105, 98, 117, 116, 101>>,
   missing_focus_style |-> <<69, 108, 101, 109, 101, 110, 116, 32, 108, 97, 99, 107, 115, 32, 118, 105, 115, 105, 98, 108, 101, 32, 102, 111, 99, 117, 115, 32, 105, 110, 100, 105, 99, 97, 116, 111, 114>>,
   touch_target_below_recommended |-> <<84, 111, 117, 99, 104, 32, 116, 97, 114, 103, 101, 116, 32, 109, 101, 101, 116, 115, 32, 65, 65, 32, 98, 117, 116, 32, 110, 111, 116, 32, 65, 65, 65, 58, 32, 51, 48, 120, 51, 48, 112, 120, 32, 40, 114, 101, 99, 111, 109, 109, 101, 110, 100, 101, 100, 58, 32, 52, 52, 120, 52, 52, 112, 120, 41>>,
   no_focusable_elements |-> <<78, 111, 32, 102, 111, 99, 117, 115, 97, 98, 108, 101, 32, 101, 108, 101, 109, 101, 110, 116, 115, 32, 102, 111, 117, 110, 100, 32, 111, 110, 32, 116, 104, 101, 32, 112, 97, 103, 101>>,
   text_over_image_manual_review |-> <<80, 111, 115, 115, 105, 98, 108, 101, 32, 105, 110, 115, 117, 102, 102, 105, 99, 105, 101, 110, 116, 32, 100, 97, 114, 107, 32, 111, 118, 101, 114, 108, 97, 121, 32, 111, 110, 32, 105, 109, 97, 103, 101, 32, 119, 105, 116, 104, 32, 116, 101, 120, 116, 46, 32, 77, 97, 110, 117, 97, 108, 32, 114, 101, 118, 105, 101, 119, 32, 114, 101, 99, 111, 109, 109, 101, 110, 100, 101, 100, 46>>]
\* The audited page: its URL, and the selectors and texts its elements yield
\* (the link's text with and without a zero-width space, U+200B).
Page ==
  [url |-> <<104, 116, 116, 112, 115, 58, 47, 47, 97, 46, 105, 111, 47, 112>>,
   img |-> <<105, 109, 103, 46, 108, 111, 103, 111>>,
   btn |-> <<98, 117, 116, 116, 111, 110, 46, 110, 97, 118>>,
   link |-> <<97, 46, 109, 111, 114, 101>>,
   hero |-> <<104, 50, 46, 104, 101, 114, 111>>,
   para |-> <<112, 46, 108, 101, 97, 100>>,
   heroText |-> <<66, 117, 121, 32, 78, 111, 119>>,
   paraText |-> <<72, 101, 108, 108, 111>>,
   linkText |-> <<71, 111, 32, 111, 110>>,
   linkTextZw |-> <<71, 111, 8203, 32, 111, 110>>,
   banner |-> <<100, 105, 118, 46, 98, 97, 110, 110, 101, 114>>]

\* A value that is JavaScript's undefined where a string is expected.
Undefined == <<-1>>

\* ------------------------------------------------------- string functions
\* The characters matched by \s in a JavaScript regular expression.
IsSpace(c) ==
  \/ c \in {9, 10, 11, 12, 13, 32, 160, 5760, 8232, 8233, 8239, 8287, 12288, 65279}
  \/ (c >= 8192 /\ c <= 8202)

\* String.prototype.toLowerCase on one code unit (ASCII letters).
LowerChar(c) == IF c >= 65 /\ c <= 90 THEN c + 32 ELSE c

ToLowerCase(s) == [i \in 1..Len(s) |-> LowerChar(s[i])]

\* s.replace(/\s+/g, ' ') on the characters lo..hi of s: every maximal run
\* of white space becomes one space (its first character is replaced, the
\* others are dropped).
RECURSIVE CollapseRange(_, _, _)
CollapseRange(s, lo, hi) ==
  IF lo > hi THEN <<>>
  ELSE IF lo = hi
       THEN (IF ~IsSpace(s[lo]) THEN <<s[lo]>>
             ELSE IF lo > 1 /\ IsSpace(s[lo - 1]) THEN <<>>
             ELSE <<32>>)
  ELSE LET mid == (lo + hi) \div 2
       IN  CollapseRange(s, lo, mid) \o CollapseRange(s, mid + 1, hi)

CollapseWs(s) == CollapseRange(s, 1, Len(s))

\* String.prototype.trim: the white space at both ends removed.
TrimStart(s) ==
  LET first == {i \in 1..Len(s) : ~IsSpace(s[i])}
  IN  IF first = {} THEN <<>>
      ELSE SubSeq(s, CHOOSE i \in first : \A j \in first : i <= j, Len(s))

TrimEnd(s) ==
  LET last == {i \in 1..Len(s) : ~IsSpace(s[i])}
  IN  IF last = {} THEN <<>>
      ELSE SubSeq(s, 1, CHOOSE i \in last : \A j \in last : i >= j)

Trim(s) == TrimEnd(TrimStart(s))

\* a || b for strings: the first operand unless it is undefined or empty.
OrElse(a, b) == IF a = Undefined \/ a = <<>> THEN b ELSE a

Truthy(s) == s # Undefined /\ s # <<>>

\* String(x) / template interpolation of a possibly undefined string.
ToStr(s) == IF s = Undefined THEN Lit.undefined ELSE s

StartsWith(s, p) == Len(p) <= Len(s) /\ SubSeq(s, 1, Len(p)) = p

EndsWith(s, p) == Len(p) <= Len(s) /\ SubSeq(s, Len(s) - Len(p) + 1, Len(s)) = p

Includes(s, p) ==
  \E i \in 0..(Len(s) - Len(p)) : SubSeq(s, i + 1, i + Len(p)) = p

\* ------------------------------------------------------------ stable IDs
\* norm of addStableIds: (s || '').toString().replace(/\s+/g,' ').trim().toLowerCase()
norm(s) == ToLowerCase(Trim(CollapseWs(OrElse(s, <<>>))))

\* One step of djb2, h = ((h << 5) + h) + c, on a 32-bit value kept as two
\* 16-bit halves <<high, low>>; (h >>> 0) reads the result modulo 2^32.
HashStep(h, c) ==
  LET lo == h[2] * 33 + c
      hi == h[1] * 33 + (lo \div 65536)
  IN  <<hi % 65536, lo % 65536>>

\* The loop of hash over the characters lo..hi of str, from the value h.
RECURSIVE HashFrom(_, _, _, _)
HashFrom(h, str, lo, hi) ==
  IF lo > hi THEN h
  ELSE IF lo = hi THEN HashStep(h, str[lo])
  ELSE LET mid == (lo + hi) \div 2
           left == HashFrom(h, str, lo, mid)
       IN  IF left[1] >= 0 THEN HashFrom(left, str, mid + 1, hi) ELSE left

\* One lowercase hexadecimal digit, as toString(16) writes it.
HexDigit(n) == IF n < 10 THEN 48 + n ELSE 87 + n

Hex4(n) ==
  <<HexDigit(n \div 4096), HexDigit((n \div 256) % 16),
    HexDigit((n \div 16) % 16), HexDigit(n % 16)>>

\* hash of addStableIds: djb2 from 5381 (= 0 * 65536 + 5381), as 8 hex digits.
hash(str) ==
  LET h == HashFrom(<<0, 5381>>, str, 1, Len(str)) IN Hex4(h[1]) \o Hex4(h[2])

\* makeId of addStableIds; cat and type are names, hashed by their characters.
makeId(url, cat, type, selector, text) ==
  hash(norm(url) \o Lit.sep \o norm(CatChars[cat]) \o Lit.sep
       \o norm(TypeChars[type]) \o Lit.sep \o norm(selector) \o Lit.sep
       \o norm(text))

\* ---------------------------------------------------- suppression engine
\* A faulty variant of sevOrder: high and critical change places.
sevOrderHighLast(s) ==
  CASE s = "low" -> 1
    [] s = "medium" -> 2
    [] s = "high" -> 4
    [] s = "critical" -> 3
    [] OTHER -> 0

\* sevOrder of ignore.js; 0 stands for a name the table does not hold.
sevOrder(s) ==
  CASE s = "low" -> 1
    [] s = "medium" -> 2
    [] s = "high" -> 3
    [] s = "critical" -> 4
    [] OTHER -> 0

\* The result of new Date(x) for the expiry strings of the rule store, in
\* hours since the epoch; NaN for a string that is no date.
NaN == -1

DateParse(x) ==
  CASE x = "2020-01-01" -> 438288
    [] x = "2026-11-03" -> 498240
    [] x = "2999-12-31" -> 9028776
    [] OTHER -> NaN

\* A faulty variant of isExpired: an expiry that does not parse counts as expired.
isExpiredOrUnparsed(expires, now) ==
  IF expires = "" THEN FALSE
  ELSE LET d == DateParse(expires) IN d = NaN \/ d < now

\* isExpired(expires), with new Date() = now.
isExpired(expires, now) ==
  IF expires = "" THEN FALSE
  ELSE LET d == DateParse(expires) IN d # NaN /\ d < now

\* The index of the first character of s, from position i on, that ends a
\* URL's host (/ ? #), or Len(s) + 1.
RECURSIVE HostEnd(_, _)
HostEnd(s, i) ==
  IF i > Len(s) \/ s[i] \in {47, 63, 35} THEN i ELSE HostEnd(s, i + 1)

\* new URL(url) for http(s) URLs: ok is FALSE where the constructor throws.
ParseURL(url) ==
  LET scheme == IF StartsWith(url, Lit.https) THEN Lit.https
                ELSE IF StartsWith(url, Lit.http) THEN Lit.http
                ELSE <<>>
      from == Len(scheme) + 1
      stop == HostEnd(url, from)
      host == ToLowerCase(SubSeq(url, from, stop - 1))
      rest == SubSeq(url, stop, Len(url))
  IN  IF url = Undefined \/ scheme = <<>> \/ host = <<>>
      THEN [ok |-> FALSE, hostname |-> <<>>, href |-> <<>>]
      ELSE [ok |-> TRUE, hostname |-> host,
            href |-> scheme \o host
                     \o (IF rest # <<>> /\ Head(rest) = 47 THEN rest ELSE <<47>> \o rest)]

\* A faulty variant of urlMatches: a host that merely ends with the pattern is in the domain.
urlMatchesAnySuffix(rule, url) ==
  LET u == ParseURL(url) IN
  IF ~u.ok THEN FALSE
  ELSE IF rule.scope = "global" THEN TRUE
  ELSE IF rule.scope = "domain"
       THEN \/ u.hostname = rule.pattern
            \/ EndsWith(u.hostname, ToStr(rule.pattern))
  ELSE IF rule.scope = "url" THEN StartsWith(u.href, ToStr(rule.pattern))
  ELSE FALSE

\* A faulty variant of urlMatches: a rule without a known scope matches every URL.
urlMatchesUnscoped(rule, url) ==
  LET u == ParseURL(url) IN
  IF ~u.ok THEN FALSE
  ELSE IF rule.scope = "domain"
       THEN \/ u.hostname = rule.pattern
            \/ EndsWith(u.hostname, <<46>> \o ToStr(rule.pattern))
  ELSE IF rule.scope = "url" THEN StartsWith(u.href, ToStr(rule.pattern))
  ELSE TRUE

\* urlMatches(rule, url)
urlMatches(rule, url) ==
  LET u == ParseURL(url) IN
  IF ~u.ok THEN FALSE
  ELSE IF rule.scope = "global" THEN TRUE
  ELSE IF rule.scope = "domain"
       THEN \/ u.hostname = rule.pattern
            \/ EndsWith(u.hostname, <<46>> \o ToStr(rule.pattern))
  ELSE IF rule.scope = "url" THEN StartsWith(u.href, ToStr(rule.pattern))
  ELSE FALSE

\* A faulty variant of RuleApplies: the URL scope is checked before the ID.
RuleAppliesScopeFirst(r, issue, now) ==
  IF isExpired(r.expires, now) THEN FALSE
  ELSE IF ~urlMatches(r, issue.url) THEN FALSE
  ELSE IF Truthy(r.id) /\ Truthy(issue.id) /\ ToLowerCase(r.id) = ToLowerCase(issue.id)
       THEN TRUE
  ELSE IF ~(r.category = "" \/ r.category = "*" \/ r.category = issue.category) THEN FALSE
  ELSE IF ~(r.type = "" \/ r.type = "*" \/ r.type = issue.type) THEN FALSE
  ELSE IF ~(\/ r.severityAtMost = ""
            \/ LET a == sevOrder(IF issue.severity = "" THEN "medium" ELSE issue.severity)
                   b == sevOrder(r.severityAtMost)
               IN  a # 0 /\ b # 0 /\ a <= b
            \/ r.severityAtMost = "*") THEN FALSE
  ELSE IF ~(~Truthy(r.selector) \/ Includes(OrElse(issue.selector, <<>>), r.selector)) THEN FALSE
  ELSE IF ~(\/ ~Truthy(r.textIncludes)
            \/ Includes(ToLowerCase(OrElse(issue.text, <<>>)), ToLowerCase(r.textIncludes)))
       THEN FALSE
  ELSE TRUE

\* The body of shouldIgnore's loop for one rule: TRUE where it returns true,
\* FALSE where it continues with the next rule.
RuleApplies(r, issue, now) ==
  IF isExpired(r.expires, now) THEN FALSE
  ELSE IF Truthy(r.id) /\ Truthy(issue.id) /\ ToLowerCase(r.id) = ToLowerCase(issue.id)
       THEN TRUE
  ELSE IF ~urlMatches(r, issue.url) THEN FALSE
  ELSE IF ~(r.category = "" \/ r.category = "*" \/ r.category = issue.category) THEN FALSE
  ELSE IF ~(r.type = "" \/ r.type = "*" \/ r.type = issue.type) THEN FALSE
  ELSE IF ~(\/ r.severityAtMost = ""
            \/ LET a == sevOrder(IF issue.severity = "" THEN "medium" ELSE issue.severity)
                   b == sevOrder(r.severityAtMost)
               IN  a # 0 /\ b # 0 /\ a <= b
            \/ r.severityAtMost = "*") THEN FALSE
  ELSE IF ~(~Truthy(r.selector) \/ Includes(OrElse(issue.selector, <<>>), r.selector)) THEN FALSE
  ELSE IF ~(\/ ~Truthy(r.textIncludes)
            \/ Includes(ToLowerCase(OrElse(issue.text, <<>>)), ToLowerCase(r.textIncludes)))
       THEN FALSE
  ELSE TRUE

\* A faulty variant of shouldIgnore: the loop returns after the first rule.
shouldIgnoreFirstRuleOnly(issue, rules, now) ==
  rules # <<>> /\ RuleApplies(Head(rules), issue, now)

\* shouldIgnore(issue, rules): the rules in list order, the first that applies wins.
RECURSIVE shouldIgnore(_, _, _)
shouldIgnore(issue, rules, now) ==
  IF rules = <<>> THEN FALSE
  ELSE IF RuleApplies(Head(rules), issue, now) THEN TRUE
  ELSE shouldIgnore(issue, Tail(rules), now)

\* ------------------------------------------------------------- findings
\* One finding as a check module creates it. context.selector,
\* context.textSample, elementDetails.selector and elementDetails.textContent
\* are the places addStableIds and applyIgnoreRules read; <<>> is an absent
\* field. status, sampleText, textColor, backgroundColor, fontSize and
\* fontWeight belong to contrast entries; hasRGB says whether the entry has textRGB and bgRGB. id, url and
\* ignored are set by the orchestrator.
Item(type, severity, message, ctxSelector, ctxTextSample, edSelector, edTextContent) ==
  [type |-> type, severity |-> severity, message |-> message,
   ctxSelector |-> ctxSelector, ctxTextSample |-> ctxTextSample,
   edSelector |-> edSelector, edTextContent |-> edTextContent,
   elCtxSelector |-> <<>>, text |-> <<>>,
   status |-> "", sampleText |-> <<>>, hasRGB |-> FALSE,
   textColor |-> "", backgroundColor |-> "", fontSize |-> 0, fontWeight |-> 0,
   id |-> <<>>, url |-> <<>>, ignored |-> FALSE]

\* The categories whose issues addStableIds, applyIgnoreRules and
\* calculateSummary walk, in the order of their category arrays.
IssueCategories ==
  <<"semanticHTML", "ariaLabels", "keyboardNavigation", "images",
    "focusManagement", "touchTargets", "focusOrder", "visionSimulation">>

AllLists == {IssueCategories[i] : i \in 1..Len(IssueCategories)} \cup {"manualReview", "colorContrast"}

\* this.results of the constructor: every list empty.
EmptyResults == [c \in AllLists |-> <<>>]

EmptySummary == [totalIssues |-> 0, criticalIssues |-> 0, warnings |-> 0, passes |-> 0, complianceLevel |-> ""]

RECURSIVE SumLen(_, _)
SumLen(res, cats) ==
  IF cats = {} THEN 0
  ELSE LET c == CHOOSE x \in cats : TRUE IN Len(res[c]) + SumLen(res, cats \ {c})

\* Findings and contrast entries the page has yielded so far.
Yielded(res) == SumLen(res, AllLists)

\* All sequences over S of length at most n.
SeqsUpTo(S, n) == UNION {[1..k -> S] : k \in 0..n}

\* ---------------------------------------------------- Structure module
\* validateHeadingHierarchy(headings), headings given by their levels, and
\* the mapping checkSemanticHTML applies to each issue it returns.
RECURSIVE HeadingSkips(_, _)
HeadingSkips(levels, i) ==
  IF i > Len(levels) THEN <<>>
  ELSE (IF i > 1 /\ levels[i] > levels[i - 1] + 1
        THEN <<Item("heading_skip_recommendation", "low",
                    Lit.skipA \o <<48 + levels[i - 1]>> \o Lit.skipB
                      \o <<48 + levels[i]>> \o Lit.skipC,
                    <<>>, <<>>, <<>>, <<>>)>>
        ELSE <<>>) \o HeadingSkips(levels, i + 1)

validateHeadingHierarchy(levels) ==
  HeadingSkips(levels, 1)
    \o (IF (\A i \in 1..Len(levels) : levels[i] # 1) /\ Len(levels) > 0
        THEN <<Item("missing_h1", "medium", Msg.missing_h1_hierarchy, <<>>, <<>>, <<>>, <<>>)>>
        ELSE <<>>)

\* The issues the in-page part of checkSemanticHTML pushes for a page with
\* the given heading levels and landmarks.
SemanticPageIssues(s) ==
  (IF \A i \in 1..Len(s.headings) : s.headings[i] # 1
   THEN <<Item("missing_h1", "critical", Msg.missing_h1, <<>>, <<>>, <<>>, <<>>)>> ELSE <<>>)
  \o (IF ~s.hasMain
      THEN <<Item("missing_main", "critical", Msg.missing_main, <<>>, <<>>, <<>>, <<>>)>> ELSE <<>>)
  \o (IF ~s.hasNav
      THEN <<Item("missing_nav", "medium", Msg.missing_nav, <<>>, <<>>, <<>>, <<>>)>> ELSE <<>>)

\* results.semanticHTML.issues when checkSemanticHTML is done.
checkSemanticHTML(s) == SemanticPageIssues(s) \o validateHeadingHierarchy(s.headings)

\* The page structures audited: heading levels in document order, and
\* whether a main and a nav landmark exist.
Structures ==
  {[headings |-> h, hasMain |-> m, hasNav |-> n] :
     h \in {<<1>>, <<>>, <<2>>, <<1, 3>>}, m \in BOOLEAN, n \in BOOLEAN}

\* ----------------------------------------------------- Contrast module
Null == <<-2>>

\* parseColor on the colour strings the page read returns.
parseColor(c) ==
  CASE c = "rgb(118, 118, 118)" -> <<118, 118, 118>>
    [] c = "rgb(153, 153, 153)" -> <<153, 153, 153>>
    [] c = "rgb(0, 0, 0)" -> <<0, 0, 0>>
    [] c = "rgb(255, 255, 255)" -> <<255, 255, 255>>
    [] OTHER -> Null

\* getContrastRatio on white, times 1000 and rounded down, tabulated from
\* getLuminance for the text colours above.
getContrastRatio1000(textRGB, bgRGB) ==
  CASE textRGB = <<118, 118, 118>> /\ bgRGB = <<255, 255, 255>> -> 4542
    [] textRGB = <<153, 153, 153>> /\ bgRGB = <<255, 255, 255>> -> 2849
    [] textRGB = <<0, 0, 0>> /\ bgRGB = <<255, 255, 255>> -> 21000
    [] textRGB = bgRGB -> 1000

\* isLargeText(fontSize, fontWeight) of wcag.js
isLargeText(fontSize, fontWeight) ==
  fontSize >= 18 \/ (fontSize >= 14 /\ fontWeight >= 700)

\* checkWCAGCompliance(...).requiredRatio, times 1000
requiredRatio1000(isLarge, level) ==
  IF level = "AAA" THEN (IF isLarge THEN 4500 ELSE 7000)
  ELSE (IF isLarge THEN 3000 ELSE 4500)

\* The status analyzeContrast and checkColorContrast give one combination;
\* checkColorContrast passes no level, so analyzeContrast's default AA is used.
ComboStatus(combo) ==
  LET textRGB == parseColor(combo.textColor)
      bgRGB == parseColor(combo.backgroundColor)
  IN  IF textRGB = Null \/ bgRGB = Null THEN "ERROR"
      ELSE IF getContrastRatio1000(textRGB, bgRGB)
                >= requiredRatio1000(isLargeText(combo.fontSize, combo.fontWeight), "AA")
           THEN "PASS" ELSE "FAIL"

\* One entry of contrastAnalysis: the combination spread, plus its status.
ContrastEntry(combo) ==
  [Item("", "", <<>>, <<>>, <<>>, combo.selector, combo.textContent)
     EXCEPT !.status = ComboStatus(combo), !.sampleText = combo.sampleText,
            !.textColor = combo.textColor, !.backgroundColor = combo.backgroundColor,
            !.fontSize = combo.fontSize, !.fontWeight = combo.fontWeight]

\* The colour combinations and the manual-review findings the page read of
\* checkColorContrast may return.
Combinations ==
  {[textColor |-> "rgb(118, 118, 118)", backgroundColor |-> "rgb(255, 255, 255)",
    fontSize |-> 16, fontWeight |-> 400, sampleText |-> Page.paraText,
    selector |-> Page.para, textContent |-> Page.paraText],
   [textColor |-> "rgb(153, 153, 153)", backgroundColor |-> "rgb(255, 255, 255)",
    fontSize |-> 16, fontWeight |-> 400, sampleText |-> Page.heroText,
    selector |-> Page.hero, textContent |-> Page.heroText]}

ManualReviews ==
  {Item("text_over_image_manual_review", "high", Msg.text_over_image_manual_review,
        Page.hero, Page.heroText, <<>>, <<>>)}

\* ------------------------------------------------- the other page reads
\* The issues each remaining check module's page read may return.
Catalog(m) ==
  CASE m = "checkARIALabels" ->
         {Item("missing_accessible_name", "medium", Msg.missing_accessible_name,
               Page.btn, <<>>, Page.btn, <<>>)}
    [] m = "checkKeyboardNavigation" ->
         {Item("missing_skip_links", "medium", Msg.missing_skip_links, <<>>, <<>>, <<>>, <<>>)}
    [] m = "checkImages" ->
         {Item("missing_alt_text", "critical", Msg.missing_alt_text, Page.img, <<>>, <<>>, <<>>)}
    [] m = "checkFocusManagement" ->
         {Item("missing_focus_style", "medium", Msg.missing_focus_style,
               Page.link, <<>>, Page.link, <<>>),
          Item("missing_focus_style", "medium", Msg.missing_focus_style,
               Page.link, <<>>, Page.link, Page.linkText),
          Item("missing_focus_style", "medium", Msg.missing_focus_style,
               Page.link, <<>>, Page.link, Page.linkTextZw)}
    [] m = "checkTouchTargets" ->
         {Item("touch_target_below_recommended", "low", Msg.touch_target_below_recommended,
               Page.link, <<>>, <<>>, <<>>)}
    [] m = "checkFocusOrder" ->
         {Item("no_focusable_elements", "critical", Msg.no_focusable_elements,
               <<>>, <<>>, <<>>, <<>>)}

\* The results list each of those modules assigns.
ListOf(m) ==
  CASE m = "checkARIALabels" -> "ariaLabels"
    [] m = "checkKeyboardNavigation" -> "keyboardNavigation"
    [] m = "checkImages" -> "images"
    [] m = "checkFocusManagement" -> "focusManagement"
    [] m = "checkTouchTargets" -> "touchTargets"
    [] m = "checkFocusOrder" -> "focusOrder"

PlainModules ==
  {"checkARIALabels", "checkKeyboardNavigation", "checkImages",
   "checkFocusManagement", "checkTouchTargets", "checkFocusOrder"}

\* ------------------------------------------------------- ignore rules
Rule(id, scope, pattern, category, type, severityAtMost, selector, textIncludes, expires) ==
  [id |-> id, scope |-> scope, pattern |-> pattern, category |-> category,
   type |-> type, severityAtMost |-> severityAtMost, selector |-> selector,
   textIncludes |-> textIncludes, expires |-> expires]

\* The ID a maintainer copies from a report of the page, typed in capitals.
HeroFailId == <<53, 67, 70, 66, 69, 65, 67, 50>>

\* The contents config/ignore.json may have when an audit reads it: no file,
\* a file that cannot be read or parsed ("malformed"), a document without a
\* rules array ("norules"), or a document with rules.
IgnoreFiles ==
  {[kind |-> "missing", rules |-> <<>>],
   [kind |-> "malformed", rules |-> <<>>],
   [kind |-> "norules", rules |-> <<>>],
   [kind |-> "ok",
    rules |-> <<Rule(<<>>, "domain", <<97, 46, 105, 111>>, "images", "", "", Page.img, <<>>, "2999-12-31")>>],
   [kind |-> "ok",
    rules |-> <<Rule(HeroFailId, "", Undefined, "", "", "", <<>>, <<>>, ""),
                Rule(<<>>, "global", Undefined, "*", "", "medium", <<>>, <<>>, "")>>],
   [kind |-> "ok",
    rules |-> <<Rule(<<>>, "global", Undefined, "*", "*", "", <<>>, <<>>, "2020-01-01"),
                Rule(<<>>, "url", Page.url, "manualReview", "", "", <<>>, <<66, 85, 89>>, "never")>>]}

\* A faulty variant of loadIgnoreConfig: without a usable file every finding is suppressed.
loadIgnoreConfigCatchAll(file) ==
  IF file.kind = "ok" THEN file.rules
  ELSE <<Rule(<<>>, "global", Undefined, "", "", "", <<>>, <<>>, "")>>

\* loadIgnoreConfig(ignoreFile).rules
loadIgnoreConfig(file) == IF file.kind = "ok" THEN file.rules ELSE <<>>

\* --------------------------------------------------------------- state
VARIABLES
  pc,          \* the step audit() takes next; "returned" or "thrown" once it is over
  running,     \* the check module whose page read is in flight, or "none"
  started,     \* the steps of audit() begun, in order
  finished,    \* the steps of audit() completed, in order
  options,     \* this.options: skipContrast, skipImages, wcagLevel
  results,     \* this.results: the finding list of every category
  summary,     \* this.results.summary
  evaluated,   \* the normalized issues applyIgnoreRules handed to shouldIgnore
  ignoreFile,  \* config/ignore.json
  now,         \* the clock, in hours since the epoch
  report,      \* the statistics report and the grade computed from it
  probe,       \* ignore engine alone: the issue and rules given to shouldIgnore
  verdict,     \* ignore engine alone: what shouldIgnore returned
  dom,         \* the live page: how often it has changed since the audit's first read
  observed,    \* the states of the live page the check modules' reads have seen
  run,         \* a run over several pages: auditResults.pages, and the rules each audit loaded
  read,        \* a page read alone: the elements of the page, and what the contrast read collected
  limiter,     \* a RateLimiter: its clock, its requests and the calls it let proceed
  crawler      \* a WebCrawler: the link graph, visitedUrls, toVisit and the pages it loaded

vars == <<pc, running, started, finished, options, results, summary, evaluated,
          ignoreFile, now, report, probe, verdict, dom, observed, run,
          read, limiter, crawler>>

\* A faulty variant of Pipeline: the summary is computed before the ID and suppression steps.
PipelineSummaryEarly ==
  <<"checkSemanticHTML", "checkColorContrast", "checkVisionSimulation",
    "checkARIALabels", "checkKeyboardNavigation", "checkImages",
    "checkFocusManagement", "checkTouchTargets", "checkFocusOrder",
    "calculateSummary", "addStableIds", "applyIgnoreRules">>

\* The steps of audit() in program order.
Pipeline ==
  <<"checkSemanticHTML", "checkColorContrast", "checkVisionSimulation",
    "checkARIALabels", "checkKeyboardNavigation", "checkImages",
    "checkFocusManagement", "checkTouchTargets", "checkFocusOrder",
    "addStableIds", "applyIgnoreRules", "calculateSummary">>

StepIndex(p) == CHOOSE i \in 1..Len(Pipeline) : Pipeline[i] = p

\* A faulty variant of Skipped: skipContrast leaves the vision simulation on.
SkippedContrastOnly(p, opts) ==
  \/ opts.skipContrast /\ p = "checkColorContrast"
  \/ opts.skipImages /\ p = "checkImages"

\* The steps the options switch off.
Skipped(p, opts) ==
  \/ opts.skipContrast /\ p \in {"checkColorContrast", "checkVisionSimulation"}
  \/ opts.skipImages /\ p = "checkImages"

\* The step audit() takes after step p; "returned" after the last.
RECURSIVE StepFrom(_, _)
StepFrom(i, opts) ==
  IF i > Len(Pipeline) THEN "returned"
  ELSE IF Skipped(Pipeline[i], opts) THEN StepFrom(i + 1, opts)
  ELSE Pipeline[i]

NextStep(p, opts) == StepFrom(StepIndex(p) + 1, opts)

NoReport == [stage |-> "none", overall |-> EmptySummary, grade |-> 0]

\* The command line of merge-ignore with no option given: every key undefined.
NoArgs ==
  [id |-> <<>>, url |-> <<>>, domain |-> <<>>, category |-> "", type |-> "",
   selector |-> <<>>, textIncludes |-> <<>>, severityAtMost |-> "", expiry |-> ""]

NoRun == [urls |-> 0, pages |-> <<>>]

\* No page read of checkColorContrast, no RateLimiter and no WebCrawler.
NoRead ==
  [elements |-> <<>>, next |-> 0, combinations |-> <<>>, manualReviews |-> <<>>,
   flagged |-> {}, scored |-> {}, visited |-> 0]

NoLimiter ==
  [maxRequests |-> 0, timeWindow |-> 0, clock |-> 0, requests |-> <<>>,
   now |-> 0, wake |-> 0, proceeded |-> <<>>]

NoCrawler ==
  [site |-> <<>>, maxDepth |-> 0, maxPages |-> 0, visitedUrls |-> {}, urlsToVisit |-> <<>>,
   loaded |-> <<>>, failures |-> 0]

NoProbe == [issue |-> <<>>, rules |-> <<>>, merged |-> NoArgs]

\* A new AccessibilityAuditor for one loaded page.
Init ==
  /\ pc = "checkSemanticHTML"
  /\ running = "none"
  /\ started = <<>>
  /\ finished = <<>>
  /\ options \in [skipContrast : BOOLEAN, skipImages : BOOLEAN, wcagLevel : {"AA"}]
  /\ results = EmptyResults
  /\ summary = EmptySummary
  /\ evaluated = {}
  /\ ignoreFile \in IgnoreFiles
  /\ now = 498240
  /\ report = NoReport
  /\ probe = NoProbe
  /\ verdict = "none"
  /\ dom = 0
  /\ observed = {}
  /\ run = NoRun
  /\ read = NoRead
  /\ limiter = NoLimiter
  /\ crawler = NoCrawler

Room == MaxFindings - Yielded(results)

\* A check module calls page.evaluate and awaits it.
StartCheck(m) ==
  /\ pc = m
  /\ running = "none"
  /\ running' = m
  /\ started' = Append(started, m)
  /\ UNCHANGED <<pc, finished, options, results, summary, evaluated, ignoreFile, now, report, probe, verdict,
                 dom, observed, run, read, limiter, crawler>>

\* The page read of check module m returns what the live page holds now,
\* and the module is done.
Done(m) ==
  /\ running' = "none"
  /\ finished' = Append(finished, m)
  /\ pc' = NextStep(m, options)
  /\ observed' = observed \cup {dom}
  /\ UNCHANGED <<started, options, summary, evaluated, ignoreFile, now, report, probe, verdict, dom, run, read, limiter, crawler>>

\* checkSemanticHTML: the page read returns, the heading hierarchy is validated.
CheckSemanticHTML ==
  /\ running = "checkSemanticHTML"
  /\ \E s \in Structures :
       /\ Len(checkSemanticHTML(s)) <= Room
       /\ results' = [results EXCEPT !.semanticHTML = checkSemanticHTML(s)]
  /\ Done("checkSemanticHTML")

\* checkColorContrast: the page read returns combinations (each colour, size
\* and weight once) and manual reviews.
CheckColorContrast ==
  /\ running = "checkColorContrast"
  /\ \E combos \in {q \in SeqsUpTo(Combinations, Room) :
                       \A i, j \in 1..Len(q) : q[i] = q[j] => i = j} :
       \E manual \in SeqsUpTo(ManualReviews, Room - Len(combos)) :
         results' = [results EXCEPT
           !.manualReview = IF Len(manual) > 0 THEN manual ELSE @,
           !.colorContrast = [i \in 1..Len(combos) |-> ContrastEntry(combos[i])]]
  /\ Done("checkColorContrast")

\* The colour pairs checkVisionSimulation collects: one per distinct pair
\* among the contrast entries that carry textRGB and bgRGB.
ColorPairs(entries) ==
  {<<entries[i].textColor, entries[i].backgroundColor>> :
     i \in {j \in 1..Len(entries) : entries[j].hasRGB}}

\* visionSimResults.testedPairs
testedPairs(entries) == Cardinality(ColorPairs(entries))

\* checkVisionSimulation: no page read; it works on results.colorContrast.
\* No entry of contrastAnalysis carries textRGB or bgRGB, so no pair is
\* collected; a collected pair would be tested by testAllVisionTypes.
CheckVisionSimulation ==
  /\ pc = "checkVisionSimulation"
  /\ running = "none"
  /\ results' = [results EXCEPT !.visionSimulation =
        [i \in 1..Cardinality(ColorPairs(results.colorContrast)) |->
           Item("vision_simulation_failure", "high", <<>>, <<>>, <<>>, <<>>, <<>>)]]
  /\ started' = Append(started, "checkVisionSimulation")
  /\ finished' = Append(finished, "checkVisionSimulation")
  /\ pc' = NextStep("checkVisionSimulation", options)
  /\ UNCHANGED <<running, options, summary, evaluated, ignoreFile, now, report, probe, verdict,
                 dom, observed, run, read, limiter, crawler>>

\* checkARIALabels ... checkFocusOrder: the page read returns its issues.
CheckReturns(m) ==
  /\ m \in PlainModules
  /\ running = m
  /\ \E out \in SeqsUpTo(Catalog(m), Room) :
       results' = [results EXCEPT ![ListOf(m)] = out]
  /\ Done(m)

\* The live page changes between two check modules (a script of the page,
\* a timer, lazy loading). A change before the first read is seen by every
\* module and one after the last read by none, so changes are followed from
\* the first read to the last step that reads the page.
PageMutates ==
  /\ running = "none"
  /\ pc \in {"checkColorContrast"} \cup PlainModules
  /\ observed # {}
  /\ dom < MaxPageChanges
  /\ dom' = dom + 1
  /\ UNCHANGED <<pc, running, started, finished, options, results, summary,
                 evaluated, ignoreFile, now, report, probe, verdict, observed, run, read, limiter, crawler>>

\* A page read throws (navigation, closed page, evaluation error). No check
\* module and not audit() catch it: audit() rejects.
CheckThrows(m) ==
  /\ running = m
  /\ running' = "none"
  /\ pc' = "thrown"
  /\ UNCHANGED <<started, finished, options, results, summary, evaluated, ignoreFile, now, report, probe, verdict,
                 dom, observed, run, read, limiter, crawler>>

\* --------------------------------------------------------- addStableIds
\* The selector and the text setId reads from an issue.
IssueSelector(issue) ==
  OrElse(issue.ctxSelector, OrElse(issue.edSelector, OrElse(issue.elCtxSelector, <<>>)))

IssueText(issue) ==
  OrElse(issue.ctxTextSample,
         OrElse(issue.edTextContent, OrElse(issue.text, OrElse(issue.message, <<>>))))

\* A faulty variant of setId: the position of the issue in its list enters the hash.
setIdByPosition(url, catName, list) ==
  [i \in 1..Len(list) |->
     [list[i] EXCEPT
        !.id = makeId(url, catName,
                      IF list[i].type = "" THEN "unspecified" ELSE list[i].type,
                      IssueSelector(list[i]), IssueText(list[i]) \o <<48 + i>>),
        !.url = url]]

\* setId(catName, list) for the page URL url.
setId(url, catName, list) ==
  [i \in 1..Len(list) |->
     [list[i] EXCEPT
        !.id = makeId(url, catName,
                      IF list[i].type = "" THEN "unspecified" ELSE list[i].type,
                      IssueSelector(list[i]), IssueText(list[i])),
        !.url = url]]

\* The loop of addStableIds over results.colorContrast.
setComboIds(url, list) ==
  [i \in 1..Len(list) |->
     [list[i] EXCEPT
        !.id = makeId(url, "colorContrast",
                      IF list[i].type # "" THEN list[i].type
                      ELSE IF list[i].status = "FAIL" THEN "contrast_failure"
                      ELSE "contrast_entry",
                      OrElse(list[i].edSelector, OrElse(list[i].ctxSelector, <<>>)),
                      OrElse(list[i].sampleText, OrElse(list[i].ctxTextSample, <<>>))),
        !.url = url]]

addStableIds(url, res) ==
  [c \in AllLists |->
     IF c = "colorContrast" THEN setComboIds(url, res[c]) ELSE setId(url, c, res[c])]

StepDone(p) ==
  /\ pc = p
  /\ running = "none"
  /\ started' = Append(started, p)
  /\ finished' = Append(finished, p)
  /\ pc' = NextStep(p, options)
  /\ UNCHANGED <<running, options, ignoreFile, now, report, probe, verdict, dom, observed, run, read, limiter, crawler>>

\* try { this.addStableIds(this.page.url) } catch {}: the call of the page's
\* url method, detached from the page, returns the URL.
AddStableIds ==
  /\ StepDone("addStableIds")
  /\ results' = addStableIds(Page.url, results)
  /\ UNCHANGED <<summary, evaluated, read, limiter, crawler>>

\* The same step when the detached call of the url method throws (the method
\* reads its page through this): the catch swallows it and no ID is set.
AddStableIdsThrows ==
  /\ StepDone("addStableIds")
  /\ UNCHANGED <<results, summary, evaluated, read, limiter, crawler>>

\* ------------------------------------------------------ applyIgnoreRules
\* normIssue(category, issue) with the page URL.
normIssue(pageUrl, category, issue) ==
  [id |-> OrElse(issue.id, <<>>), url |-> pageUrl, category |-> category,
   type |-> IF issue.type = "" THEN "unspecified" ELSE issue.type,
   severity |-> IF issue.severity = "" THEN "medium" ELSE issue.severity,
   selector |-> IssueSelector(issue), text |-> IssueText(issue)]

\* The object applyIgnoreRules builds for a failing contrast entry.
normCombo(pageUrl, combo) ==
  [id |-> OrElse(combo.id, <<>>), url |-> pageUrl, category |-> "colorContrast",
   type |-> "contrast_failure", severity |-> "critical",
   selector |-> OrElse(combo.edSelector, OrElse(combo.ctxSelector, <<>>)),
   text |-> OrElse(combo.sampleText, <<>>)]

\* Whether applyIgnoreRules hands the entry of list c to shouldIgnore (every
\* issue, and the contrast entries that failed), and what it hands.
Evaluates(c, item) == c # "colorContrast" \/ item.status = "FAIL"

Normalized(pageUrl, c, item) ==
  IF c = "colorContrast" THEN normCombo(pageUrl, item) ELSE normIssue(pageUrl, c, item)

\* A faulty variant of applyIgnoreRules: suppressed entries are removed from their lists.
applyIgnoreRulesDropping(pageUrl, rules, t, res) ==
  [c \in AllLists |->
     SelectSeq(res[c], LAMBDA x :
       ~(Evaluates(c, x) /\ shouldIgnore(Normalized(pageUrl, c, x), rules, t)))]

applyIgnoreRules(pageUrl, rules, t, res) ==
  [c \in AllLists |->
     [i \in 1..Len(res[c]) |->
        IF Evaluates(c, res[c][i]) /\ shouldIgnore(Normalized(pageUrl, c, res[c][i]), rules, t)
        THEN [res[c][i] EXCEPT !.ignored = TRUE]
        ELSE res[c][i]]]

\* try { await this.applyIgnoreRules() } catch {}: the rules are read from
\* the ignore file now, the page URL through this.page.url().
ApplyIgnoreRules ==
  /\ StepDone("applyIgnoreRules")
  /\ results' = applyIgnoreRules(Page.url, loadIgnoreConfig(ignoreFile), now, results)
  /\ evaluated' = UNION {{Normalized(Page.url, c, results[c][i]) :
                            i \in {j \in 1..Len(results[c]) : Evaluates(c, results[c][j])}} :
                         c \in AllLists}
  /\ UNCHANGED summary

\* ----------------------------------------------------- calculateSummary
RECURSIVE SumOver(_, _)
SumOver(f, S) ==
  IF S = {} THEN 0
  ELSE LET x == CHOOSE y \in S : TRUE IN f[x] + SumOver(f, S \ {x})

IssueLists == {IssueCategories[i] : i \in 1..Len(IssueCategories)}

\* A faulty variant of calculateSummary: the ignored flag is not looked at.
calculateSummaryCountingIgnored(res) ==
  LET Every(x) == TRUE
      Critical(x) == x.severity = "critical"
      Warning(x) == x.severity \in {"medium", "high"}
      Other(x) == x.severity \notin {"critical", "medium", "high"}
      Failed(x) == x.status = "FAIL"
      Passed(x) == x.status = "PASS"
      total == SumOver([c \in IssueLists |-> Len(SelectSeq(res[c], Every))], IssueLists)
                 + Len(SelectSeq(res.colorContrast, Failed))
      critical == SumOver([c \in IssueLists |-> Len(SelectSeq(res[c], Critical))], IssueLists)
                    + Len(SelectSeq(res.colorContrast, Failed))
  IN  [totalIssues |-> total,
       criticalIssues |-> critical,
       warnings |-> SumOver([c \in IssueLists |-> Len(SelectSeq(res[c], Warning))], IssueLists),
       passes |-> SumOver([c \in IssueLists |-> Len(SelectSeq(res[c], Other))], IssueLists)
                    + Len(SelectSeq(res.colorContrast, Passed)),
       complianceLevel |-> IF critical = 0 THEN "WCAG AA Compliant" ELSE "Needs Improvement"]

calculateSummary(res) ==
  LET Active(x) == ~x.ignored
      Critical(x) == ~x.ignored /\ x.severity = "critical"
      Warning(x) == ~x.ignored /\ x.severity \in {"medium", "high"}
      Other(x) == ~x.ignored /\ x.severity \notin {"critical", "medium", "high"}
      Failed(x) == x.status = "FAIL" /\ ~x.ignored
      Passed(x) == x.status = "PASS"
      total == SumOver([c \in IssueLists |-> Len(SelectSeq(res[c], Active))], IssueLists)
                 + Len(SelectSeq(res.colorContrast, Failed))
      critical == SumOver([c \in IssueLists |-> Len(SelectSeq(res[c], Critical))], IssueLists)
                    + Len(SelectSeq(res.colorContrast, Failed))
  IN  [totalIssues |-> total,
       criticalIssues |-> critical,
       warnings |-> SumOver([c \in IssueLists |-> Len(SelectSeq(res[c], Warning))], IssueLists),
       passes |-> SumOver([c \in IssueLists |-> Len(SelectSeq(res[c], Other))], IssueLists)
                    + Len(SelectSeq(res.colorContrast, Passed)),
       complianceLevel |-> IF critical = 0 THEN "WCAG AA Compliant" ELSE "Needs Improvement"]

\* this.calculateSummary(); return this.results
CalculateSummary ==
  /\ StepDone("calculateSummary")
  /\ summary' = calculateSummary(results)
  /\ UNCHANGED <<results, evaluated, read, limiter, crawler>>

\* ------------------------------------------------ statistics and grade
\* The page entry runAudit records: the audit's results, or, when audit()
\* threw, an entry with an error and no finding list.
PageResults == IF pc = "thrown" THEN EmptyResults ELSE results

\* ReportGenerator.countIssuesBySeverity(pageResults)
countIssuesBySeverity(res) ==
  LET Every(x) == TRUE
      Critical(x) == x.severity = "critical"
      High(x) == x.severity = "high"
      Medium(x) == x.severity = "medium"
      Low(x) == x.severity \notin {"critical", "high", "medium"}
      Failed(x) == x.status = "FAIL"
      Passed(x) == x.status = "PASS"
      cats == IssueLists \cup {"manualReview"}
  IN  [total |-> SumOver([c \in cats |-> Len(SelectSeq(res[c], Every))], cats)
                   + Len(SelectSeq(res.colorContrast, Failed)),
       critical |-> SumOver([c \in cats |-> Len(SelectSeq(res[c], Critical))], cats)
                      + Len(SelectSeq(res.colorContrast, Failed)),
       high |-> SumOver([c \in cats |-> Len(SelectSeq(res[c], High))], cats),
       medium |-> SumOver([c \in cats |-> Len(SelectSeq(res[c], Medium))], cats),
       low |-> SumOver([c \in cats |-> Len(SelectSeq(res[c], Low))], cats),
       passes |-> Len(SelectSeq(res.colorContrast, Passed))]

\* ReportGenerator.calculateOverallStatistics for a run of one page.
calculateOverallStatistics(res) ==
  LET p == countIssuesBySeverity(res) IN
  [totalIssues |-> p.total, criticalIssues |-> p.critical,
   highPriorityIssues |-> p.high, mediumPriorityIssues |-> p.medium,
   lowPriorityIssues |-> p.low, passes |-> p.passes,
   complianceLevel |-> IF p.critical = 0 THEN "WCAG AA Compliant" ELSE "Needs Improvement"]

\* readStatsOrSummary on a statistics report (the shape with "overall").
readStatsOrSummary(overall, pagesAudited) ==
  [pages |-> IF pagesAudited = 0 THEN 1 ELSE pagesAudited,
   totalIssues |-> overall.totalIssues,
   criticalIssues |-> overall.criticalIssues,
   warnings |-> overall.highPriorityIssues + overall.mediumPriorityIssues
                  + overall.lowPriorityIssues,
   passes |-> overall.passes]

Min(a, b) == IF a < b THEN a ELSE b

Max(a, b) == IF a > b THEN a ELSE b

\* Math.round of the fraction n / d (d > 0, n >= 0): halves round up.
RoundDiv(n, d) == (2 * n + d) \div (2 * d)

\* computeGrade(summary).score
computeGrade(s) ==
  LET weighted == s.criticalIssues * 5 + s.warnings * 3
      denom == Max(1, (IF s.pages = 0 THEN 1 ELSE s.pages) * 20)
      penalty == Min(100, RoundDiv(weighted * 100, denom + weighted))
  IN  Max(0, 100 - penalty)

\* runAudit: the page is recorded and the statistics report is written.
GenerateStatistics ==
  /\ pc \in {"returned", "thrown"}
  /\ report.stage = "none"
  /\ report' = [stage |-> "statistics",
                overall |-> calculateOverallStatistics(PageResults),
                grade |-> 0]
  /\ UNCHANGED <<pc, running, started, finished, options, results, summary,
                 evaluated, ignoreFile, now, probe, verdict, dom, observed, run, read, limiter, crawler>>

\* The quarterly run reads the statistics report and grades the site.
QuarterlyGrade ==
  /\ report.stage = "statistics"
  /\ report' = [report EXCEPT
       !.stage = "graded",
       !.grade = computeGrade(readStatsOrSummary(report.overall,
                                                 IF pc = "returned" THEN 1 ELSE 0))]
  /\ UNCHANGED <<pc, running, started, finished, options, results, summary,
                 evaluated, ignoreFile, now, probe, verdict, dom, observed, run, read, limiter, crawler>>

\* ---------------------------------------------------- the page audit
Next ==
  \/ \E m \in {"checkSemanticHTML", "checkColorContrast"} \cup PlainModules : StartCheck(m)
  \/ PageMutates
  \/ CheckSemanticHTML
  \/ CheckColorContrast
  \/ CheckVisionSimulation
  \/ \E m \in PlainModules : CheckReturns(m)
  \/ \E m \in {"checkSemanticHTML", "checkColorContrast"} \cup PlainModules : CheckThrows(m)
  \/ AddStableIds
  \/ AddStableIdsThrows
  \/ ApplyIgnoreRules
  \/ CalculateSummary
  \/ GenerateStatistics
  \/ QuarterlyGrade

Spec == Init /\ [][Next]_vars

\* ------------------------------------------------ the ignore engine alone
\* The issues handed to shouldIgnore: IDs as addStableIds writes them (or
\* none), URLs on the rule's host, on a subdomain, on another host that ends
\* alike, and one that is no URL.
ProbeIssues ==
  {[id |-> i, url |-> u, category |-> k.category, type |-> k.type,
    severity |-> k.severity, selector |-> k.selector, text |-> k.text] :
     i \in {<<>>, <<53, 99, 102, 98, 101, 97, 99, 50>>, <<49, 48, 54, 52, 54, 55, 48, 56>>},
     u \in {Page.url,
            <<104, 116, 116, 112, 115, 58, 47, 47, 119, 46, 97, 46, 105, 111, 47>>,
            <<104, 116, 116, 112, 115, 58, 47, 47, 98, 97, 46, 105, 111, 47, 120>>,
            <<97, 46, 105, 111, 47, 112>>},
     k \in {[category |-> "colorContrast", type |-> "contrast_failure",
             severity |-> "critical", selector |-> Page.hero, text |-> Page.heroText],
            [category |-> "images", type |-> "missing_alt_text",
             severity |-> "critical", selector |-> Page.img, text |-> Msg.missing_alt_text],
            [category |-> "touchTargets", type |-> "touch_target_below_recommended",
             severity |-> "low", selector |-> Page.link,
             text |-> Msg.touch_target_below_recommended],
            [category |-> "ariaLabels", type |-> "missing_accessible_name",
             severity |-> "medium", selector |-> Page.btn,
             text |-> Msg.missing_accessible_name]}}

\* The rules an ignore file may hold.
ProbeRules ==
  {Rule(HeroFailId, "", Undefined, "", "", "", <<>>, <<>>, ""),
   Rule(HeroFailId, "domain", <<98, 46, 105, 111>>, "images", "missing_alt_text", "low",
        Page.img, <<66, 85, 89>>, "soon"),
   Rule(HeroFailId, "global", Undefined, "", "", "", <<>>, <<>>, "2020-01-01"),
   Rule(<<>>, "domain", <<97, 46, 105, 111>>, "*", "", "", <<>>, <<>>, ""),
   Rule(<<>>, "domain", <<97, 46, 105, 111>>, "*", "", "", <<>>, <<>>, "2026-11-03"),
   Rule(<<>>, "global", Undefined, "", "*", "low", <<>>, <<>>, "2999-12-31"),
   Rule(<<>>, "global", Undefined, "", "", "high", <<>>, <<>>, ""),
   Rule(<<>>, "", Undefined, "images", "missing_alt_text", "", Page.img, <<>>, ""),
   Rule(<<49, 48, 54, 52, 54, 55, 48, 56>>, "site", <<97, 46, 105, 111>>, "*", "*", "",
        <<>>, <<>>, ""),
   Rule(<<>>, "url", <<104, 116, 116, 112, 115, 58, 47, 47, 97, 46, 105, 111, 47>>,
        "colorContrast", "", "", <<104, 101, 114, 111>>, <<66, 85, 89>>, "")}

\* An ignore file of 31 rules: thirty rules that ran out in 2020, then a
\* rule for one finding by its ID.
LongRuleList ==
  [i \in 1..31 |->
     IF i <= 30 THEN Rule(<<>>, "global", Undefined, "", "", "", <<>>, <<>>, "2020-01-01")
     ELSE Rule(HeroFailId, "", Undefined, "", "", "", <<>>, <<>>, "")]

\* The rules the loop of shouldIgnore looks at before it returns.
RECURSIVE rulesExamined(_, _, _)
rulesExamined(issue, rules, t) ==
  IF rules = <<>> THEN 0
  ELSE IF RuleApplies(Head(rules), issue, t) THEN 1
  ELSE 1 + rulesExamined(issue, Tail(rules), t)

\* ------------------------------------------------------- merge-ignore
\* /^\d{4}-\d{2}-\d{2}$/.test(expiry) on the expiry strings used here.
MatchesDatePattern(x) == x \in {"2020-01-01", "2026-11-03", "2999-12-31"}

\* validateRule(rule) of merge-ignore (and the same test in main, before
\* it): TRUE where it does not throw.
validateRule(rule) ==
  /\ \/ Truthy(rule.id) \/ Truthy(rule.url) \/ Truthy(rule.domain)
     \/ Truthy(rule.selector) \/ rule.category # "" \/ rule.type # ""
  /\ rule.expiry = "" \/ MatchesDatePattern(rule.expiry)

\* The rule object main writes for the options args, as shouldIgnore reads
\* it back: the keys url, domain and expiry are stored but never read, and
\* scope, pattern and expires, which are read, are not stored.
StoredRule(args) ==
  Rule(args.id, "", Undefined, args.category, args.type, args.severityAtMost,
       args.selector, args.textIncludes, "")

\* main of merge-ignore on the rules of config/ignore.json: the rules the
\* file holds afterwards.
mergeIgnore(args, rules) ==
  IF ~validateRule(args) THEN rules
  ELSE IF \E k \in 1..Len(rules) :
            \/ Truthy(args.id) /\ rules[k].id = args.id
            \/ Truthy(rules[k].id) /\ rules[k].id = args.id
       THEN rules
  ELSE Append(rules, StoredRule(args))

\* The command lines a maintainer runs.
MergeArgs ==
  {[NoArgs EXCEPT !.id = <<53, 99, 102, 98, 101, 97, 99, 50>>],
   [NoArgs EXCEPT !.domain = <<97, 46, 105, 111>>, !.selector = Page.img],
   [NoArgs EXCEPT !.url = <<104, 116, 116, 112, 115, 58, 47, 47, 97, 46, 105, 111, 47>>, !.selector = <<104, 101, 114, 111>>],
   [NoArgs EXCEPT !.id = <<53, 99, 102, 98, 101, 97, 99, 50>>, !.expiry = "2020-01-01"],
   [NoArgs EXCEPT !.domain = <<97, 46, 105, 111>>, !.selector = <<105, 109, 103>>,
                  !.severityAtMost = "low", !.expiry = "2999-12-31"],
   [NoArgs EXCEPT !.id = <<53, 99, 102, 98, 101, 97, 99, 50>>, !.expiry = "soon"]}

\* The clock when the rules are evaluated: midnight of 2026-11-03 and one
\* hour later.
Clock == {498240, 498241}

InitIgnore ==
  /\ pc = "shouldIgnore"
  /\ running = "none"
  /\ started = <<>>
  /\ finished = <<>>
  /\ options = [skipContrast |-> FALSE, skipImages |-> FALSE, wcagLevel |-> "AA"]
  /\ results = EmptyResults
  /\ summary = EmptySummary
  /\ evaluated = {}
  /\ ignoreFile = [kind |-> "missing", rules |-> <<>>]
  /\ now \in Clock
  /\ report = NoReport
  /\ probe \in [issue : ProbeIssues,
                rules : SeqsUpTo(ProbeRules, MaxRules) \cup {LongRuleList},
                merged : {NoArgs}]
  /\ verdict = "none"
  /\ dom = 0
  /\ observed = {}
  /\ run = NoRun
  /\ read = NoRead
  /\ limiter = NoLimiter
  /\ crawler = NoCrawler

\* A maintainer runs merge-ignore on the ignore file before the audit.
MergeIgnore ==
  /\ pc = "shouldIgnore"
  /\ verdict = "none"
  /\ probe.merged = NoArgs
  /\ Len(probe.rules) < MaxRules
  /\ \E args \in MergeArgs :
       probe' = [probe EXCEPT !.rules = mergeIgnore(args, @), !.merged = args]
  /\ UNCHANGED <<pc, running, started, finished, options, results, summary,
                 evaluated, ignoreFile, now, report, verdict, dom, observed, run, read, limiter, crawler>>

\* shouldIgnore(issue, rules) is called and returns.
ShouldIgnore ==
  /\ pc = "shouldIgnore"
  /\ verdict = "none"
  /\ verdict' = IF shouldIgnore(probe.issue, probe.rules, now) THEN "ignore" ELSE "keep"
  /\ UNCHANGED <<pc, running, started, finished, options, results, summary,
                 evaluated, ignoreFile, now, report, probe, dom, observed, run, read, limiter, crawler>>

NextIgnore == MergeIgnore \/ ShouldIgnore

SpecIgnore == InitIgnore /\ [][NextIgnore]_vars

\* ------------------------------------------------ a run over several pages
\* The URL of the i-th page of the run.
RunUrl(i) == Page.url \o <<48 + i>>

\* What the check modules of an audit may leave in this.results: nothing,
\* an image without alt text, or the analysis of one colour combination.
RunFindings ==
  {EmptyResults,
   [EmptyResults EXCEPT !.images =
      <<Item("missing_alt_text", "critical", Msg.missing_alt_text, Page.img, <<>>, <<>>, <<>>)>>],
   [EmptyResults EXCEPT !.colorContrast =
      <<ContrastEntry([textColor |-> "rgb(153, 153, 153)",
                       backgroundColor |-> "rgb(255, 255, 255)",
                       fontSize |-> 16, fontWeight |-> 400, sampleText |-> Page.heroText,
                       selector |-> Page.hero, textContent |-> Page.heroText])>>],
   [EmptyResults EXCEPT !.colorContrast =
      <<ContrastEntry([textColor |-> "rgb(118, 118, 118)",
                       backgroundColor |-> "rgb(255, 255, 255)",
                       fontSize |-> 16, fontWeight |-> 400, sampleText |-> Page.paraText,
                       selector |-> Page.para, textContent |-> Page.paraText])>>]}

\* cli audit: the URLs to audit are known, no page is audited yet.
InitRun ==
  /\ pc = "runAudit"
  /\ running = "none"
  /\ started = <<>>
  /\ finished = <<>>
  /\ options \in [skipContrast : {FALSE}, skipImages : {FALSE}, wcagLevel : {"AA", "AAA"}]
  /\ results = EmptyResults
  /\ summary = EmptySummary
  /\ evaluated = {}
  /\ ignoreFile \in IgnoreFiles
  /\ now = 498240
  /\ report = NoReport
  /\ probe = NoProbe
  /\ verdict = "none"
  /\ dom = 0
  /\ observed = {}
  /\ run \in [urls : 1..MaxPages, pages : {<<>>}]
  /\ read = NoRead
  /\ limiter = NoLimiter
  /\ crawler = NoCrawler

\* One turn of runAudit's loop: a new AccessibilityAuditor audits the next
\* page; its applyIgnoreRules loads the ignore file as it is now. The
\* entry pushed keeps the results; rules is the rule list the audit loaded.
AuditPage ==
  /\ pc = "runAudit"
  /\ Len(run.pages) < run.urls
  /\ \E found \in RunFindings : \E ids \in BOOLEAN :
       LET url == RunUrl(Len(run.pages) + 1)
           rules == loadIgnoreConfig(ignoreFile)
           res == applyIgnoreRules(url, rules, now,
                                   IF ids THEN addStableIds(url, found) ELSE found)
       IN  run' = [run EXCEPT !.pages =
                     Append(@, [url |-> url, error |-> FALSE, rules |-> rules,
                                results |-> res, summary |-> calculateSummary(res)])]
  /\ UNCHANGED <<pc, running, started, finished, options, results, summary, evaluated,
                 ignoreFile, now, report, probe, verdict, dom, observed, read, limiter, crawler>>

\* The same turn when the page fails to load or audit() throws: the catch
\* of the loop pushes an error entry.
AuditPageFails ==
  /\ pc = "runAudit"
  /\ Len(run.pages) < run.urls
  /\ run' = [run EXCEPT !.pages =
               Append(@, [url |-> RunUrl(Len(run.pages) + 1), error |-> TRUE, rules |-> <<>>,
                          results |-> EmptyResults, summary |-> EmptySummary])]
  /\ UNCHANGED <<pc, running, started, finished, options, results, summary, evaluated,
                 ignoreFile, now, report, probe, verdict, dom, observed, read, limiter, crawler>>

\* config/ignore.json is rewritten between two pages of the run (a
\* maintainer merges a rule, a checkout replaces the file).
IgnoreFileChanges ==
  /\ pc = "runAudit"
  /\ Len(run.pages) > 0
  /\ Len(run.pages) < run.urls
  /\ \E f \in IgnoreFiles : f # ignoreFile /\ ignoreFile' = f
  /\ UNCHANGED <<pc, running, started, finished, options, results, summary, evaluated,
                 now, report, probe, verdict, dom, observed, run, read, limiter, crawler>>

\* The loop's memoryMonitor.checkMemoryUsage(), called before the try of a
\* turn, finds the heap above the limit and throws: runAudit rejects, its
\* finally closes the browser.
MemoryLimitExceeded ==
  /\ pc = "runAudit"
  /\ Len(run.pages) < run.urls
  /\ pc' = "thrown"
  /\ UNCHANGED <<running, started, finished, options, results, summary, evaluated,
                 ignoreFile, now, report, probe, verdict, dom, observed, run, read, limiter, crawler>>

\* The loop is over: the reports are generated from auditResults.
GenerateReports ==
  /\ pc = "runAudit"
  /\ Len(run.pages) = run.urls
  /\ pc' = "reported"
  /\ UNCHANGED <<running, started, finished, options, results, summary, evaluated,
                 ignoreFile, now, report, probe, verdict, dom, observed, run, read, limiter, crawler>>

NextRun ==
  \/ AuditPage
  \/ AuditPageFails
  \/ IgnoreFileChanges
  \/ MemoryLimitExceeded
  \/ GenerateReports

SpecRun == InitRun /\ [][NextRun]_vars

\* ------------------------------- the page read of checkColorContrast alone
RECURSIVE DecStr(_)
RECURSIVE findImageAncestorFrom(_, _, _)
RECURSIVE hasSufficientOverlayFrom(_, _, _, _)
RECURSIVE getEffectiveBackgroundFrom(_, _, _, _)

\* The text elements a page read walks over.
MaxElements == 2

\* Computed colours as parseRGBA returns them, alpha in thousandths.
Transparent == [r |-> 0, g |-> 0, b |-> 0, a |-> 0]

White == [r |-> 255, g |-> 255, b |-> 255, a |-> 1000]

DarkOverlay == [r |-> 0, g |-> 0, b |-> 0, a |-> 600]

TextGrey == [r |-> 153, g |-> 153, b |-> 153, a |-> 1000]

\* The ceiling of the ancestor walks (safety < 30).
IterationCeiling == 30

\* A visible text element with direct text, and its ancestor chain: position
\* 1 is the element, position depth the root. One position may carry a
\* background image, one a background colour; every other position is
\* transparent and has no image.
Elements ==
  {e \in [depth : {2, 32}, imageAt : {0, 1, 2, 31},
          image : {"none", "url(hero.jpg)",
                   "linear-gradient(rgba(0, 0, 0, 0.6), rgba(0, 0, 0, 0.6)), url(hero.jpg)"},
          fillAt : {0, 1, 2}, fill : {Transparent, White, DarkOverlay}] :
     /\ (e.imageAt = 0) = (e.image = "none")
     /\ (e.fillAt = 0) = (e.fill = Transparent)
     /\ (e.depth = 32) = (e.imageAt \in {0, 31})}

\* window.getComputedStyle of the ancestor at position i of element el.
getComputedStyle(el, i) ==
  [backgroundImage |-> IF i = el.imageAt THEN el.image ELSE "none",
   backgroundColor |-> IF i = el.fillAt THEN el.fill ELSE Transparent]

\* The backgrounds of html and body.
PageBackground == [html |-> Transparent, body |-> White]

clamp01(x) == Max(0, Min(1000, x))

\* blend(top, bottom), channels rounded as Math.round does.
blend(top, bottom) ==
  LET aTop == clamp01(top.a)
      aBottom == clamp01(bottom.a)
      outA == aTop * 1000 + aBottom * (1000 - aTop)
      blendChan(ct, cb) ==
        RoundDiv(ct * aTop * 1000 + cb * aBottom * (1000 - aTop),
                 IF outA = 0 THEN 1000000 ELSE outA)
  IN [r |-> blendChan(top.r, bottom.r), g |-> blendChan(top.g, bottom.g),
      b |-> blendChan(top.b, bottom.b), a |-> outA \div 1000]

\* A number as String(n) renders it.
DecStr(n) == IF n < 10 THEN <<48 + n>> ELSE DecStr(n \div 10) \o <<48 + (n % 10)>>

toRGBString(c) ==
  <<114, 103, 98, 40>> \o DecStr(c.r) \o <<44, 32>> \o DecStr(c.g)
    \o <<44, 32>> \o DecStr(c.b) \o <<41>>

\* The loop of findImageAncestor from position current: the position of the
\* nearest background image (0 for null), and the elements it visited.
findImageAncestorFrom(el, current, safety) ==
  IF current <= el.depth /\ safety < IterationCeiling
  THEN IF getComputedStyle(el, current).backgroundImage # "none"
       THEN [found |-> current, visited |-> safety + 1]
       ELSE findImageAncestorFrom(el, current + 1, safety + 1)
  ELSE [found |-> 0, visited |-> safety]

findImageAncestor(el) == findImageAncestorFrom(el, 1, 0)

isBlackish(rgba) == rgba.r <= 30 /\ rgba.g <= 30 /\ rgba.b <= 30

\* A gradient layer with a near-black stop of alpha 0.55 or more lies above
\* every url() layer.
gradientHasDarkOverlay(bgImageStr) ==
  bgImageStr = "linear-gradient(rgba(0, 0, 0, 0.6), rgba(0, 0, 0, 0.6)), url(hero.jpg)"

\* The loop of hasSufficientOverlay from position current up to, and not
\* including, the image ancestor; then the image ancestor's own gradient.
hasSufficientOverlayFrom(el, imageAncestor, current, safety) ==
  IF current <= el.depth /\ current # imageAncestor /\ safety < IterationCeiling
  THEN LET cs == getComputedStyle(el, current) IN
       IF isBlackish(cs.backgroundColor) /\ cs.backgroundColor.a >= 550
       THEN [present |-> TRUE, visited |-> safety + 1]
       ELSE IF gradientHasDarkOverlay(cs.backgroundImage)
       THEN [present |-> TRUE, visited |-> safety + 1]
       ELSE hasSufficientOverlayFrom(el, imageAncestor, current + 1, safety + 1)
  ELSE [present |-> gradientHasDarkOverlay(getComputedStyle(el, imageAncestor).backgroundImage),
        visited |-> safety]

hasSufficientOverlay(el, imageAncestor) == hasSufficientOverlayFrom(el, imageAncestor, 1, 0)

\* The end of getEffectiveBackground: what is not opaque yet lies over the
\* page background.
overPage(acc) ==
  LET pageBg == blend(PageBackground.body, PageBackground.html)
      out == IF acc.a < 999 THEN blend(acc, pageBg) ELSE acc
  IN [out EXCEPT !.a = 1000]

\* The loop of getEffectiveBackground from position current: null over a
\* background image, else the composited colour; and the elements visited.
getEffectiveBackgroundFrom(el, current, safety, acc) ==
  IF current <= el.depth /\ safety < IterationCeiling
  THEN LET cs == getComputedStyle(el, current)
           next == blend(cs.backgroundColor, acc)
       IN IF cs.backgroundImage # "none"
          THEN [null |-> TRUE, bg |-> Transparent, visited |-> safety + 1]
          ELSE IF next.a >= 999
          THEN [null |-> FALSE, bg |-> overPage(next), visited |-> safety + 1]
          ELSE getEffectiveBackgroundFrom(el, current + 1, safety + 1, next)
  ELSE [null |-> FALSE, bg |-> overPage(acc), visited |-> safety]

getEffectiveBackground(el) == getEffectiveBackgroundFrom(el, 1, 0, Transparent)

\* The manual-review finding and the combination the loop body pushes.
ManualReview(el) ==
  [type |-> "text_over_image_manual_review", severity |-> "high",
   selector |-> Page.hero, textSample |-> Page.heroText, overlayDetected |-> FALSE]

Combination(el, bgEff) ==
  [textColor |-> toRGBString(TextGrey), backgroundColor |-> toRGBString(bgEff),
   fontSize |-> 16, fontWeight |-> 400, sampleText |-> Page.heroText,
   selector |-> Page.hero]

\* manualKeys and processedCombinations, read off what was pushed.
manualKey(m) == <<"div.hero", m.textSample>>

combinationKey(c) == <<c.textColor, c.backgroundColor, c.fontSize, c.fontWeight>>

\* The page read begins: document.querySelectorAll returned the text elements.
InitRead ==
  /\ pc = "textElements.forEach"
  /\ running = "checkColorContrast"
  /\ started = <<>>
  /\ finished = <<>>
  /\ options = [skipContrast |-> FALSE, skipImages |-> FALSE, wcagLevel |-> "AA"]
  /\ results = EmptyResults
  /\ summary = EmptySummary
  /\ evaluated = {}
  /\ ignoreFile = [kind |-> "missing", rules |-> <<>>]
  /\ now = 498240
  /\ report = NoReport
  /\ probe = NoProbe
  /\ verdict = "none"
  /\ dom = 0
  /\ observed = {}
  /\ run = NoRun
  /\ read \in [elements : SeqsUpTo(Elements, MaxElements) \ {<<>>}, next : {1},
               combinations : {<<>>}, manualReviews : {<<>>},
               flagged : {{}}, scored : {{}}, visited : {0}]
  /\ limiter = NoLimiter
  /\ crawler = NoCrawler

\* One call of the forEach callback, for the element at read.next. flagged
\* and scored note the elements that reached the manual-review branch and
\* the combination key, visited the longest ancestor walk so far.
ReadElement ==
  /\ pc = "textElements.forEach"
  /\ read.next <= Len(read.elements)
  /\ LET el == read.elements[read.next]
         img == findImageAncestor(el)
         overlay == hasSufficientOverlay(el, img.found)
         manual == img.found # 0 /\ ~overlay.present
         bgEff == getEffectiveBackground(el)
         walks == {img.visited, bgEff.visited}
                    \cup (IF img.found # 0 THEN {overlay.visited} ELSE {})
         pushManual ==
           manual /\ \A i \in 1..Len(read.manualReviews) :
                        manualKey(read.manualReviews[i]) # manualKey(ManualReview(el))
         pushCombo ==
           ~bgEff.null /\ \A i \in 1..Len(read.combinations) :
              combinationKey(read.combinations[i]) # combinationKey(Combination(el, bgEff.bg))
     IN read' = [read EXCEPT
          !.next = @ + 1,
          !.manualReviews = IF pushManual THEN Append(@, ManualReview(el)) ELSE @,
          !.combinations = IF pushCombo THEN Append(@, Combination(el, bgEff.bg)) ELSE @,
          !.flagged = IF manual THEN @ \cup {read.next} ELSE @,
          !.scored = IF ~bgEff.null THEN @ \cup {read.next} ELSE @,
          !.visited = Max(@, CHOOSE v \in walks : \A w \in walks : w <= v)]
  /\ UNCHANGED <<pc, running, started, finished, options, results, summary, evaluated,
                 ignoreFile, now, report, probe, verdict, dom, observed, run, limiter, crawler>>

\* The callback has run for every element: the page read returns results.
ReadReturns ==
  /\ pc = "textElements.forEach"
  /\ read.next > Len(read.elements)
  /\ pc' = "returned"
  /\ UNCHANGED <<running, started, finished, options, results, summary, evaluated,
                 ignoreFile, now, report, probe, verdict, dom, observed, run, read,
                 limiter, crawler>>

NextRead == ReadElement \/ ReadReturns

SpecRead == InitRead /\ [][NextRead]_vars

\* ------------------------------------------------------- the rate limiter
\* The last instant of the clock that is followed, in milliseconds.
MaxClock == 5

\* new RateLimiter(maxRequests, timeWindow): Date.now() is limiter.clock,
\* proceeded the instants at which calls of waitIfNeeded returned.
InitRate ==
  /\ pc = "idle"
  /\ running = "none"
  /\ started = <<>>
  /\ finished = <<>>
  /\ options = [skipContrast |-> FALSE, skipImages |-> FALSE, wcagLevel |-> "AA"]
  /\ results = EmptyResults
  /\ summary = EmptySummary
  /\ evaluated = {}
  /\ ignoreFile = [kind |-> "missing", rules |-> <<>>]
  /\ now = 498240
  /\ report = NoReport
  /\ probe = NoProbe
  /\ verdict = "none"
  /\ dom = 0
  /\ observed = {}
  /\ run = NoRun
  /\ read = NoRead
  /\ limiter \in [maxRequests : {1, 2}, timeWindow : {2, 3}, clock : {0},
                  requests : {<<>>}, now : {0}, wake : {0}, proceeded : {<<>>}]
  /\ crawler = NoCrawler

\* Time passes.
Tick ==
  /\ limiter.clock < MaxClock
  /\ limiter' = [limiter EXCEPT !.clock = @ + 1]
  /\ UNCHANGED <<pc, running, started, finished, options, results, summary, evaluated,
                 ignoreFile, now, report, probe, verdict, dom, observed, run, read, crawler>>

\* Math.min(...this.requests)
oldestRequest(requests) ==
  CHOOSE t \in {requests[i] : i \in 1..Len(requests)} :
    \A i \in 1..Len(requests) : t <= requests[i]

\* waitIfNeeded is called (the caller awaits it, so one call is in flight):
\* it drops the requests outside the window; below the limit, or with no
\* time left to wait, it records the request and returns, else it sets a
\* timer.
WaitIfNeeded ==
  /\ pc = "idle"
  /\ LET t == limiter.clock
         kept == SelectSeq(limiter.requests, LAMBDA time : t - time < limiter.timeWindow)
         waitTime == IF Len(kept) >= limiter.maxRequests
                     THEN limiter.timeWindow - (t - oldestRequest(kept)) ELSE 0
     IN IF waitTime > 0
        THEN /\ limiter' = [limiter EXCEPT !.requests = kept, !.now = t, !.wake = t + waitTime]
             /\ pc' = "setTimeout"
        ELSE /\ limiter' = [limiter EXCEPT !.requests = Append(kept, t), !.now = t,
                                           !.proceeded = Append(@, t)]
             /\ pc' = "idle"
  /\ UNCHANGED <<running, started, finished, options, results, summary, evaluated,
                 ignoreFile, now, report, probe, verdict, dom, observed, run, read, crawler>>

\* The timer fires, at its time or later: the call records the instant it
\* had read before waiting, and returns.
TimerFires ==
  /\ pc = "setTimeout"
  /\ limiter.clock >= limiter.wake
  /\ limiter' = [limiter EXCEPT !.requests = Append(@, limiter.now),
                                !.proceeded = Append(@, limiter.clock)]
  /\ pc' = "idle"
  /\ UNCHANGED <<running, started, finished, options, results, summary, evaluated,
                 ignoreFile, now, report, probe, verdict, dom, observed, run, read, crawler>>

NextRate == Tick \/ WaitIfNeeded \/ TimerFires

SpecRate == InitRate /\ [][NextRate]_vars

\* ------------------------------------------------------------ the crawler
\* The failures of browser.newPage that are followed in one crawl.
MaxFailures == 2

\* A URL of the crawled site: its page, and the form it is written in: clean,
\* with a fragment (https://a.io/p2#top) or with a doubled leading slash
\* (https://a.io//p2).
Url(page, form) == [page |-> page, form |-> form]

\* WebCrawler._cleanUrl drops query and fragment and collapses the first run
\* of slashes of the path.
cleanUrl(u) == Url(u.page, "clean")

\* The clean of crawlPage's page read drops query and fragment and keeps the
\* path as it is.
clean(u) == IF u.form = "hash" THEN Url(u.page, "clean") ELSE u

\* The sites crawled: for each page the hrefs of its anchors, in document order.
Sites ==
  {<< <<Url(2, "clean"), Url(3, "clean")>>, <<Url(3, "clean")>>, <<Url(1, "clean")>> >>,
   << <<Url(1, "hash"), Url(2, "slashes")>>, <<Url(2, "slashes"), Url(3, "hash")>>, <<>> >>,
   << <<Url(2, "clean")>>, <<Url(3, "clean")>>, <<Url(1, "hash"), Url(1, "slashes")>> >>,
   << <<Url(1, "clean"), Url(2, "hash"), Url(2, "clean")>>, <<>>, <<>> >>}

\* internalLinks of the page read: a Set of the cleaned hrefs, in insertion order.
RECURSIVE internalLinks(_)
internalLinks(hrefs) ==
  IF hrefs = <<>> THEN <<>>
  ELSE LET before == internalLinks(SubSeq(hrefs, 1, Len(hrefs) - 1))
           c == clean(hrefs[Len(hrefs)])
       IN IF \E i \in 1..Len(before) : before[i] = c THEN before ELSE Append(before, c)

\* links.forEach of crawlPage: a link neither visited nor queued is queued
\* one level deeper.
RECURSIVE enqueue(_, _, _, _)
enqueue(urlsToVisit, visitedUrls, links, depth) ==
  IF links = <<>> THEN urlsToVisit
  ELSE LET linkUrl == Head(links)
           fresh == /\ linkUrl \notin visitedUrls
                    /\ \A i \in 1..Len(urlsToVisit) : urlsToVisit[i].url # linkUrl
       IN enqueue(IF fresh THEN Append(urlsToVisit, [url |-> linkUrl, depth |-> depth + 1])
                  ELSE urlsToVisit,
                  visitedUrls, Tail(links), depth)

\* A faulty variant of skips: the depth of the entry is not looked at.
skipsVisitedOnly(c, normalized, depth) == normalized \in c.visitedUrls

\* The entry taken from the queue is passed over.
skips(c, normalized, depth) == normalized \in c.visitedUrls \/ depth > c.maxDepth

\* crawl(startUrl): the queue holds the cleaned start URL at depth 0.
InitCrawl ==
  /\ pc = "crawl"
  /\ running = "none"
  /\ started = <<>>
  /\ finished = <<>>
  /\ options = [skipContrast |-> FALSE, skipImages |-> FALSE, wcagLevel |-> "AA"]
  /\ results = EmptyResults
  /\ summary = EmptySummary
  /\ evaluated = {}
  /\ ignoreFile = [kind |-> "missing", rules |-> <<>>]
  /\ now = 498240
  /\ report = NoReport
  /\ probe = NoProbe
  /\ verdict = "none"
  /\ dom = 0
  /\ observed = {}
  /\ run = NoRun
  /\ read = NoRead
  /\ limiter = NoLimiter
  /\ \E startUrl \in {Url(1, "clean"), Url(1, "hash")} :
       crawler \in [site : Sites, maxDepth : {1, 2}, maxPages : {1, 2, 3},
                    visitedUrls : {{}},
                    urlsToVisit : {<<[url |-> cleanUrl(startUrl), depth |-> 0]>>},
                    loaded : {<<>>}, failures : {0}]

\* A faulty variant of Crawling: the loop goes on until the queue is empty.
CrawlingWhileQueued ==
  /\ pc = "crawl"
  /\ Len(crawler.urlsToVisit) > 0

\* The loop of crawl goes on.
Crawling ==
  /\ pc = "crawl"
  /\ Len(crawler.urlsToVisit) > 0
  /\ Cardinality(crawler.visitedUrls) < crawler.maxPages

\* One turn of the loop: the entry taken is visited already or too deep.
CrawlSkips ==
  /\ Crawling
  /\ LET entry == Head(crawler.urlsToVisit)
     IN /\ skips(crawler, cleanUrl(entry.url), entry.depth)
        /\ crawler' = [crawler EXCEPT !.urlsToVisit = Tail(@)]
  /\ UNCHANGED <<pc, running, started, finished, options, results, summary, evaluated,
                 ignoreFile, now, report, probe, verdict, dom, observed, run, read, limiter>>

\* One turn of the loop: crawlPage loads the page; it queues the links of a
\* page that loaded and none of a page that failed, and the URL is visited.
\* loaded notes the call of crawlPage.
CrawlVisits ==
  /\ Crawling
  /\ LET entry == Head(crawler.urlsToVisit)
         normalized == cleanUrl(entry.url)
     IN /\ ~skips(crawler, normalized, entry.depth)
        /\ \E ok \in BOOLEAN :
             LET links == IF ok THEN internalLinks(crawler.site[normalized.page]) ELSE <<>>
             IN crawler' = [crawler EXCEPT
                  !.urlsToVisit = enqueue(Tail(@), crawler.visitedUrls, links, entry.depth),
                  !.visitedUrls = @ \cup {normalized},
                  !.loaded = Append(@, [url |-> normalized, depth |-> entry.depth])]
  /\ UNCHANGED <<pc, running, started, finished, options, results, summary, evaluated,
                 ignoreFile, now, report, probe, verdict, dom, observed, run, read, limiter>>

\* One turn of the loop: browser.newPage throws; the catch of the loop
\* records an error result and the URL is not visited.
CrawlNewPageFails ==
  /\ Crawling
  /\ crawler.failures < MaxFailures
  /\ LET entry == Head(crawler.urlsToVisit)
     IN /\ ~skips(crawler, cleanUrl(entry.url), entry.depth)
        /\ crawler' = [crawler EXCEPT !.urlsToVisit = Tail(@), !.failures = @ + 1]
  /\ UNCHANGED <<pc, running, started, finished, options, results, summary, evaluated,
                 ignoreFile, now, report, probe, verdict, dom, observed, run, read, limiter>>

\* The loop is over: crawl returns Array.from(this.visitedUrls).
CrawlReturns ==
  /\ pc = "crawl"
  /\ ~Crawling
  /\ pc' = "returned"
  /\ UNCHANGED <<running, started, finished, options, results, summary, evaluated,
                 ignoreFile, now, report, probe, verdict, dom, observed, run, read, limiter,
                 crawler>>

NextCrawl == CrawlSkips \/ CrawlVisits \/ CrawlNewPageFails \/ CrawlReturns

SpecCrawl == InitCrawl /\ [][NextCrawl]_vars

\* The crawl goes on while it can: every await of the loop resolves or
\* rejects (page loads carry a timeout).
SpecCrawlFair == SpecCrawl /\ WF_vars(NextCrawl)

\* ---------------------------------------------- checkARIALabels alone
\* validRoles of validateARIA.
validRoles ==
  {<<97, 108, 101, 114, 116>>,
   <<97, 108, 101, 114, 116, 100, 105, 97, 108, 111, 103>>,
   <<97, 112, 112, 108, 105, 99, 97, 116, 105, 111, 110>>,
   <<97, 114, 116, 105, 99, 108, 101>>,
   <<98, 97, 110, 110, 101, 114>>,
   <<98, 117, 116, 116, 111, 110>>,
   <<99, 101, 108, 108>>,
   <<99, 104, 101, 99, 107, 98, 111, 120>>,
   <<99, 111, 108, 117, 109, 110, 104, 101, 97, 100, 101, 114>>,
   <<99, 111, 109, 98, 111, 98, 111, 120>>,
   <<99, 111, 109, 112, 108, 101, 109, 101, 110, 116, 97, 114, 121>>,
   <<99, 111, 110, 116, 101, 110, 116, 105, 110, 102, 111>>,
   <<100, 101, 102, 105, 110, 105, 116, 105, 111, 110>>,
   <<100, 105, 97, 108, 111, 103>>,
   <<100, 105, 114, 101, 99, 116, 111, 114, 121>>,
   <<100, 111, 99, 117, 109, 101, 110, 116>>,
   <<102, 101, 101, 100>>,
   <<102, 105, 103, 117, 114, 101>>,
   <<102, 111, 114, 109>>,
   <<103, 114, 105, 100>>,
   <<103, 114, 105, 100, 99, 101, 108, 108>>,
   <<103, 114, 111, 117, 112>>,
   <<104, 101, 97, 100, 105, 110, 103>>,
   <<105, 109, 103>>,
   <<108, 105, 110, 107>>,
   <<108, 105, 115, 116>>,
   <<108, 105, 115, 116, 98, 111, 120>>,
   <<108, 105, 115, 116, 105, 116, 101, 109>>,
   <<108, 111, 103>>,
   <<109, 97, 105, 110>>,
   <<109, 97, 114, 113, 117, 101, 101>>,
   <<109, 97, 116, 104>>,
   <<109, 101, 110, 117>>,
   <<109, 101, 110, 117, 98, 97, 114>>,
   <<109, 101, 110, 117, 105, 116, 101, 109>>,
   <<109, 101, 110, 117, 105, 116, 101, 109, 99, 104, 101, 99, 107, 98, 111, 120>>,
   <<109, 101, 110, 117, 105, 116, 101, 109, 114, 97, 100, 105, 111>>,
   <<110, 97, 118, 105, 103, 97, 116, 105, 111, 110>>,
   <<110, 111, 110, 101>>,
   <<110, 111, 116, 101>>,
   <<111, 112, 116, 105, 111, 110>>,
   <<112, 114, 101, 115, 101, 110, 116, 97, 116, 105, 111, 110>>,
   <<112, 114, 111, 103, 114, 101, 115, 115, 98, 97, 114>>,
   <<114, 97, 100, 105, 111>>,
   <<114, 97, 100, 105, 111, 103, 114, 111, 117, 112>>,
   <<114, 101, 103, 105, 111, 110>>,
   <<114, 111, 119>>,
   <<114, 111, 119, 103, 114, 111, 117, 112>>,
   <<114, 111, 119, 104, 101, 97, 100, 101, 114>>,
   <<115, 99, 114, 111, 108, 108, 98, 97, 114>>,
   <<115, 101, 97, 114, 99, 104>>,
   <<115, 101, 97, 114, 99, 104, 98, 111, 120>>,
   <<115, 101, 112, 97, 114, 97, 116, 111, 114>>,
   <<115, 108, 105, 100, 101, 114>>,
   <<115, 112, 105, 110, 98, 117, 116, 116, 111, 110>>,
   <<115, 116, 97, 116, 117, 115>>,
   <<115, 119, 105, 116, 99, 104>>,
   <<116, 97, 98>>,
   <<116, 97, 98, 108, 101>>,
   <<116, 97, 98, 108, 105, 115, 116>>,
   <<116, 97, 98, 112, 97, 110, 101, 108>>,
   <<116, 101, 114, 109>>,
   <<116, 101, 120, 116, 98, 111, 120>>,
   <<116, 105, 109, 101, 114>>,
   <<116, 111, 111, 108, 98, 97, 114>>,
   <<116, 111, 111, 108, 116, 105, 112>>,
   <<116, 114, 101, 101>>,
   <<116, 114, 101, 101, 103, 114, 105, 100>>,
   <<116, 114, 101, 101, 105, 116, 101, 109>>}

\* The message validateARIA has for a role outside validRoles.
InvalidRoleMessage(role) ==
  <<73, 110, 118, 97, 108, 105, 100, 32, 65, 82, 73, 65, 32, 114, 111, 108, 101, 58, 32, 34>> \o role \o <<34>>

\* validateARIA(element), for an element without aria-describedby and
\* aria-labelledby: the role, if present, is looked up in lower case.
validateARIA(element) ==
  LET issues == IF element.role # <<>> /\ ToLowerCase(element.role) \notin validRoles
                THEN <<InvalidRoleMessage(element.role)>> ELSE <<>>
  IN [valid |-> issues = <<>>, issues |-> issues]

\* The elements of the audited page that carry a role attribute or are
\* interactive: a button or a div, its role attribute (empty when it has
\* none) and whether it has a label, a title or text.
AriaElements ==
  {[tag |-> g, selector |-> IF g = "button" THEN Page.btn ELSE Page.banner,
    role |-> r, named |-> n] :
     g \in {"button", "div"},
     r \in {<<>>, <<98, 117, 116, 116, 111, 110>>, <<66, 85, 84, 84, 79, 78>>, <<98, 117, 116, 111, 110>>},
     n \in BOOLEAN}

\* interactiveElements.forEach of the page read: an interactive element
\* without accessible name yields an issue.
RECURSIVE ariaIssues(_)
ariaIssues(elements) ==
  IF elements = <<>> THEN <<>>
  ELSE (IF Head(elements).tag = "button" /\ ~Head(elements).named
        THEN <<Item("missing_accessible_name", "medium", Msg.missing_accessible_name,
                    Head(elements).selector, <<>>, Head(elements).selector, <<>>)>>
        ELSE <<>>) \o ariaIssues(Tail(elements))

\* checkARIALabels begins on a loaded page.
InitAria ==
  /\ pc = "checkARIALabels"
  /\ running = "checkARIALabels"
  /\ started = <<"checkARIALabels">>
  /\ finished = <<>>
  /\ options = [skipContrast |-> FALSE, skipImages |-> FALSE, wcagLevel |-> "AA"]
  /\ results = EmptyResults
  /\ summary = EmptySummary
  /\ evaluated = {}
  /\ ignoreFile = [kind |-> "missing", rules |-> <<>>]
  /\ now = 498240
  /\ report = NoReport
  /\ probe = NoProbe
  /\ verdict = "none"
  /\ dom = 0
  /\ observed = {}
  /\ run = NoRun
  /\ read \in [elements : SeqsUpTo(AriaElements, MaxElements) \ {<<>>}, next : {1},
               combinations : {<<>>}, manualReviews : {<<>>},
               flagged : {{}}, scored : {{}}, visited : {0}]
  /\ limiter = NoLimiter
  /\ crawler = NoCrawler

\* The page read of checkARIALabels returns and its issues become
\* results.ariaLabels.
CheckARIALabels ==
  /\ pc = "checkARIALabels"
  /\ results' = [results EXCEPT !.ariaLabels = ariaIssues(read.elements)]
  /\ read' = [read EXCEPT !.next = Len(read.elements) + 1]
  /\ finished' = Append(finished, "checkARIALabels")
  /\ running' = "none"
  /\ pc' = "returned"
  /\ UNCHANGED <<started, options, summary, evaluated, ignoreFile, now, report, probe,
                 verdict, dom, observed, run, limiter, crawler>>

NextAria == CheckARIALabels

SpecAria == InitAria /\ [][NextAria]_vars

\* =================================================================
\* Properties
\* =================================================================
\* Every entry of every list of the audit result, with its list.
Entries == UNION {{<<c, i>> : i \in 1..Len(results[c])} : c \in AllLists}

\* The result with the ignored entries taken out of every list.
WithoutIgnored(res) ==
  [c \in AllLists |-> SelectSeq(res[c], LAMBDA x : ~x.ignored)]

\* C1: a check module whose page read throws does not make audit() throw:
\* the audit never ends by propagating a failure to its caller.
C1_ModuleFailureIsolated == pc # "thrown"

\* The order of the steps of a page audit, as claimed.
C2_Order ==
  <<"checkSemanticHTML", "checkColorContrast", "checkVisionSimulation",
    "checkARIALabels", "checkKeyboardNavigation", "checkImages",
    "checkFocusManagement", "checkTouchTargets", "checkFocusOrder",
    "addStableIds", "applyIgnoreRules", "calculateSummary">>

C2_Position(p) == CHOOSE i \in 1..Len(C2_Order) : C2_Order[i] = p

\* C2: the steps of an audit start in the claimed order, each only after the
\* one before it has finished, and the summary is computed only after the
\* ID step and the suppression step have finished.
C2_StrictlySequential ==
  /\ \A i, j \in 1..Len(started) :
       i < j => C2_Position(started[i]) < C2_Position(started[j])
  /\ Len(started) - Len(finished) \in {0, 1}
  /\ finished = SubSeq(started, 1, Len(finished))
  /\ running # "none" =>
       Len(started) = Len(finished) + 1 /\ started[Len(started)] = running
  /\ \A k \in 1..Len(started) :
       started[k] = "calculateSummary" =>
         \E i, j \in 1..Len(finished) :
           /\ i < j /\ j < k
           /\ finished[i] = "addStableIds"
           /\ finished[j] = "applyIgnoreRules"

C2_Witness == pc = "returned" /\ Len(finished) = Len(C2_Order)

\* C3: when audit() has returned, every finding of every list and every
\* contrast entry carries an ID and the page URL.
C3_EveryFindingIdentified ==
  pc = "returned" =>
    \A e \in Entries : results[e[1]][e[2]].id # <<>> /\ results[e[1]][e[2]].url = Page.url

\* The tuple (url, category, type, selector, text) of an entry of list c.
C4_Tuple(c, x) ==
  IF c = "colorContrast"
  THEN <<x.url, c, IF x.status = "FAIL" THEN "contrast_failure" ELSE "contrast_entry",
         x.edSelector, x.sampleText>>
  ELSE <<x.url, c, x.type, IssueSelector(x), IssueText(x)>>

\* C4: two entries with the same (url, category, type, selector, text) carry
\* the same ID, whatever their places in the lists.
C4_SameTupleSameId ==
  \A e, f \in Entries :
    LET x == results[e[1]][e[2]]
        y == results[f[1]][f[2]]
    IN  (x.id # <<>> /\ y.id # <<>> /\ C4_Tuple(e[1], x) = C4_Tuple(f[1], y)) => x.id = y.id

C4_Witness ==
  \E e, f \in Entries :
    /\ e # f
    /\ results[e[1]][e[2]].id # <<>>
    /\ C4_Tuple(e[1], results[e[1]][e[2]]) = C4_Tuple(f[1], results[f[1]][f[2]])
    /\ results[f[1]][f[2]].id = results[e[1]][e[2]].id

\* Rule r carries the ID of the probed issue, up to letter case.
C5_IdMatch(r) ==
  /\ r.id # <<>>
  /\ probe.issue.id # <<>>
  /\ ToLowerCase(r.id) = ToLowerCase(probe.issue.id)

\* C5: a rule that is not expired and carries the finding's ID (letter case
\* aside) suppresses the finding, whatever its other fields say.
C5_IdMatchSuppresses ==
  verdict # "none" =>
    ((\E k \in 1..Len(probe.rules) :
         ~isExpired(probe.rules[k].expires, now) /\ C5_IdMatch(probe.rules[k]))
       => verdict = "ignore")

\* One rule only, its ID that of the issue, and scope, category, type,
\* severity ceiling, selector and text all failing to match.
C5_Witness ==
  /\ verdict = "ignore"
  /\ Len(probe.rules) = 1
  /\ C5_IdMatch(probe.rules[1])
  /\ probe.rules[1].scope = "domain"
  /\ probe.rules[1].category # probe.issue.category
  /\ probe.rules[1].id # probe.issue.id

\* The expiry is a date that parses and lies in the past.
C6_PastDated(r) == DateParse(r.expires) # NaN /\ DateParse(r.expires) < now

\* The rule with a date far in the future put where it has no expiry or one
\* that does not parse.
C6_FarFuture(r) ==
  IF r.expires = "" \/ DateParse(r.expires) = NaN THEN [r EXCEPT !.expires = "2999-12-31"] ELSE r

\* C6: the verdict is the one the rule list gives with its past-dated rules
\* taken out, and the one it gives when every rule without a parseable
\* expiry is given an expiry far in the future.
C6_ExpiredRulesSkipped ==
  verdict # "none" =>
    /\ (verdict = "ignore") =
         shouldIgnore(probe.issue, SelectSeq(probe.rules, LAMBDA r : ~C6_PastDated(r)), now)
    /\ (verdict = "ignore") =
         shouldIgnore(probe.issue, [k \in 1..Len(probe.rules) |-> C6_FarFuture(probe.rules[k])], now)

\* A single rule, past-dated and carrying the issue's ID, suppresses nothing.
C6_Witness ==
  /\ verdict = "keep"
  /\ Len(probe.rules) = 1
  /\ C6_PastDated(probe.rules[1])
  /\ C5_IdMatch(probe.rules[1])

\* An entry with its ignored flag put aside.
C7_Unflagged(x) == [x EXCEPT !.ignored = FALSE]

\* C7: the suppression step keeps every list's length and order and every
\* field of every entry but the ignored flag; it sets the flag only on
\* entries a rule matches and leaves every other entry as it was.
C7_SuppressionOnlyFlags ==
  [][pc = "applyIgnoreRules" =>
       \A c \in AllLists :
         /\ Len(results'[c]) = Len(results[c])
         /\ \A i \in 1..Len(results[c]) :
              /\ C7_Unflagged(results'[c][i]) = C7_Unflagged(results[c][i])
              /\ results'[c][i] # results[c][i] =>
                   /\ results'[c][i].ignored
                   /\ Evaluates(c, results[c][i])
                   /\ shouldIgnore(Normalized(Page.url, c, results[c][i]),
                                   loadIgnoreConfig(ignoreFile), now)]_vars

\* After suppression one list holds an ignored entry and, behind it or
\* before it, one that is not ignored.
C7_Witness ==
  /\ pc = "calculateSummary"
  /\ \E c \in AllLists : \E i, j \in 1..Len(results[c]) :
       results[c][i].ignored /\ ~results[c][j].ignored

\* C8: the summary is the one the result gives with its ignored entries
\* taken out, and the compliance level is the compliant one exactly when no
\* critical issue is counted.
C8_SummarySkipsIgnored ==
  pc = "returned" =>
    /\ summary.totalIssues = calculateSummary(WithoutIgnored(results)).totalIssues
    /\ summary.criticalIssues = calculateSummary(WithoutIgnored(results)).criticalIssues
    /\ summary.warnings = calculateSummary(WithoutIgnored(results)).warnings
    /\ (summary.complianceLevel = "WCAG AA Compliant") = (summary.criticalIssues = 0)
    /\ summary.complianceLevel \in {"WCAG AA Compliant", "Needs Improvement"}

\* An ignored critical finding or failing contrast entry, and a summary that
\* counts no critical issue.
C8_Witness ==
  /\ pc = "returned"
  /\ summary.criticalIssues = 0
  /\ \E e \in Entries :
       /\ results[e[1]][e[2]].ignored
       /\ results[e[1]][e[2]].severity = "critical" \/ results[e[1]][e[2]].status = "FAIL"

\* The findings of every list that are not ignored and whose severity is in
\* Sev, failing contrast entries counted as critical findings.
C9_Count(Sev) ==
  Cardinality({e \in Entries :
                 /\ ~results[e[1]][e[2]].ignored
                 /\ IF e[1] = "colorContrast"
                    THEN results[e[1]][e[2]].status = "FAIL" /\ "critical" \in Sev
                    ELSE results[e[1]][e[2]].severity \in Sev})

\* C9: every finding of every list that is not ignored, the manual-review
\* findings included, is counted in totalIssues, and in criticalIssues or
\* warnings by its severity.
C9_SummaryCountsEveryList ==
  pc = "returned" =>
    /\ summary.totalIssues = C9_Count({"low", "medium", "high", "critical"})
    /\ summary.criticalIssues = C9_Count({"critical"})
    /\ summary.warnings >= C9_Count({"medium", "high"})

\* C10: the totals of the statistics report, and the grade computed from
\* them, are those of the result with its ignored entries taken out.
C10_ReportExcludesIgnored ==
  /\ report.stage # "none" =>
       report.overall = calculateOverallStatistics(WithoutIgnored(PageResults))
  /\ report.stage = "graded" =>
       report.grade = computeGrade(readStatsOrSummary(
                        calculateOverallStatistics(WithoutIgnored(PageResults)),
                        IF pc = "returned" THEN 1 ELSE 0))

\* The rule merge-ignore wrote last is in the ignore file.
C11_Written ==
  /\ probe.merged # NoArgs
  /\ validateRule(probe.merged)
  /\ Len(probe.rules) > 0
  /\ probe.rules[Len(probe.rules)] = StoredRule(probe.merged)

\* The finding lies in the scope the options name (on host --domain, or
\* under --url) and its selector contains --selector.
C11_InScope(a, issue) ==
  /\ ParseURL(issue.url).ok
  /\ \/ /\ Truthy(a.domain)
        /\ \/ ParseURL(issue.url).hostname = a.domain
           \/ EndsWith(ParseURL(issue.url).hostname, <<46>> \o a.domain)
     \/ /\ Truthy(a.url)
        /\ StartsWith(ParseURL(issue.url).href, a.url)
  /\ Truthy(a.selector)
  /\ Includes(issue.selector, a.selector)

\* C11: a rule written by merge-ignore with --domain (or --url) and
\* --selector, and no other restriction, suppresses the findings in that
\* scope whose selector contains the given one; a rule written with an
\* --expiry in the past changes no verdict.
C11_MergedRuleHonoured ==
  (verdict # "none" /\ C11_Written) =>
    /\ (/\ C11_InScope(probe.merged, probe.issue)
        /\ probe.merged.severityAtMost = ""
        /\ probe.merged.expiry = "") => verdict = "ignore"
    /\ (/\ probe.merged.expiry # ""
        /\ DateParse(probe.merged.expiry) < now)
         => (verdict = "ignore") =
              shouldIgnore(probe.issue, SubSeq(probe.rules, 1, Len(probe.rules) - 1), now)

\* The order of severities, lowest first.
C12_Order == <<"low", "medium", "high", "critical">>

C12_Rank(s) == CHOOSE i \in 1..Len(C12_Order) : C12_Order[i] = s

\* Rule r has a named severity ceiling and does not carry the issue's ID.
C12_Ceiling(r) ==
  /\ \E i \in 1..Len(C12_Order) : C12_Order[i] = r.severityAtMost
  /\ ~C5_IdMatch(r)

\* C12: a rule with a severity ceiling that does not match by ID never
\* applies to a finding whose severity is above the ceiling, and for a
\* finding at or below the ceiling it applies exactly as it would without
\* one; a finding above the ceiling of every rule is kept.
C12_SeverityCeiling ==
  verdict # "none" =>
    /\ \A k \in 1..Len(probe.rules) :
         LET r == probe.rules[k] IN
         C12_Ceiling(r) =>
           IF C12_Rank(probe.issue.severity) > C12_Rank(r.severityAtMost)
           THEN ~RuleApplies(r, probe.issue, now)
           ELSE RuleApplies(r, probe.issue, now)
                  = RuleApplies([r EXCEPT !.severityAtMost = ""], probe.issue, now)
    /\ (/\ probe.rules # <<>>
        /\ \A k \in 1..Len(probe.rules) :
             /\ C12_Ceiling(probe.rules[k])
             /\ C12_Rank(probe.issue.severity) > C12_Rank(probe.rules[k].severityAtMost))
         => verdict = "keep"

\* A critical finding on a valid URL is kept by a global rule whose ceiling
\* is high and that has no other restriction.
C12_Witness ==
  /\ verdict = "keep"
  /\ Len(probe.rules) = 1
  /\ probe.rules[1].scope = "global"
  /\ probe.rules[1].severityAtMost = "high"
  /\ probe.rules[1].expires = ""
  /\ probe.issue.severity = "critical"
  /\ ParseURL(probe.issue.url).ok

\* Rule r is {scope: 'domain', pattern: P, category: '*'} and nothing else
\* but, possibly, an expiry.
C13_DomainRule(r) ==
  /\ r.scope = "domain" /\ Truthy(r.pattern) /\ r.category = "*"
  /\ r.id = <<>> /\ r.type = "" /\ r.severityAtMost = ""
  /\ r.selector = <<>> /\ r.textIncludes = <<>>

\* The URL's host is P, or a name that ends with a dot and P.
C13_OnDomain(url, P) ==
  LET h == ParseURL(url).hostname IN
  /\ ParseURL(url).ok
  /\ \/ h = P
     \/ /\ Len(h) > Len(P)
        /\ h[Len(h) - Len(P)] = 46
        /\ SubSeq(h, Len(h) - Len(P) + 1, Len(h)) = P

\* C13: a domain rule that is not expired suppresses every finding on its
\* host or a subdomain of it, and applies to no finding on another host.
C13_DomainScope ==
  verdict # "none" =>
    /\ (\E k \in 1..Len(probe.rules) :
          /\ C13_DomainRule(probe.rules[k])
          /\ ~isExpired(probe.rules[k].expires, now)
          /\ C13_OnDomain(probe.issue.url, probe.rules[k].pattern)) => verdict = "ignore"
    /\ \A k \in 1..Len(probe.rules) :
         (/\ C13_DomainRule(probe.rules[k])
          /\ ~C13_OnDomain(probe.issue.url, probe.rules[k].pattern))
           => ~RuleApplies(probe.rules[k], probe.issue, now)
    /\ (/\ probe.rules # <<>>
        /\ \A k \in 1..Len(probe.rules) :
             /\ C13_DomainRule(probe.rules[k])
             /\ ~C13_OnDomain(probe.issue.url, probe.rules[k].pattern))
         => verdict = "keep"

\* A finding on a host that ends with the pattern, without the dot, is kept.
C13_Witness ==
  /\ verdict = "keep"
  /\ Len(probe.rules) = 1
  /\ C13_DomainRule(probe.rules[1])
  /\ probe.rules[1].expires = ""
  /\ ParseURL(probe.issue.url).ok
  /\ EndsWith(ParseURL(probe.issue.url).hostname, probe.rules[1].pattern)
  /\ ~C13_OnDomain(probe.issue.url, probe.rules[1].pattern)

\* The zero-width characters: U+200B..U+200D and U+FEFF.
C14_ZeroWidth(c) == (c >= 8203 /\ c <= 8205) \/ c = 65279

\* A string with its zero-width characters stripped, white space collapsed
\* and letters lowercased.
C14_Fold(s) == ToLowerCase(Trim(CollapseWs(SelectSeq(s, LAMBDA c : ~C14_ZeroWidth(c)))))

\* The tuple of an entry, its strings folded.
C14_FoldedTuple(c, x) ==
  <<C14_Fold(C4_Tuple(c, x)[1]), C4_Tuple(c, x)[2], C4_Tuple(c, x)[3],
    C14_Fold(C4_Tuple(c, x)[4]), C14_Fold(C4_Tuple(c, x)[5])>>

\* C14: two entries whose (url, category, type, selector, text) differ only
\* in letter case, in runs of white space or in zero-width characters carry
\* the same ID.
C14_FoldedTupleSameId ==
  \A e, f \in Entries :
    LET x == results[e[1]][e[2]]
        y == results[f[1]][f[2]]
    IN  (/\ x.id # <<>> /\ y.id # <<>>
         /\ C14_FoldedTuple(e[1], x) = C14_FoldedTuple(f[1], y)) => x.id = y.id

\* Step p of the audit has run to its end.
C15_Ran(p) == \E i \in 1..Len(finished) : finished[i] = p

C15_Begun(p) == \E i \in 1..Len(started) : started[i] = p

\* C15: with skipContrast neither the contrast nor the vision step is ever
\* begun, with skipImages the images step is never begun; an audit that
\* returns has run the contrast and the vision step unless skipContrast is
\* set, the images step unless skipImages is set, and every other step.
C15_OptionsSkipOnlyTheirSteps ==
  /\ options.skipContrast =>
       ~C15_Begun("checkColorContrast") /\ ~C15_Begun("checkVisionSimulation")
  /\ options.skipImages => ~C15_Begun("checkImages")
  /\ pc = "returned" =>
       /\ C15_Ran("checkColorContrast") = ~options.skipContrast
       /\ C15_Ran("checkVisionSimulation") = ~options.skipContrast
       /\ C15_Ran("checkImages") = ~options.skipImages
       /\ \A i \in 1..Len(C2_Order) :
            C2_Order[i] \notin {"checkColorContrast", "checkVisionSimulation", "checkImages"}
              => C15_Ran(C2_Order[i])

\* An audit with both options set has returned after nine steps.
C15_Witness ==
  /\ pc = "returned"
  /\ options.skipContrast /\ options.skipImages
  /\ Len(finished) = Len(C2_Order) - 3

\* C16: all the page reads of one audit see the same state of the page.
C16_OneSnapshot == Cardinality(observed) <= 1

\* C17: every page of a run that was audited had the same rule list loaded.
C17_OneRuleSetPerRun ==
  \A i, j \in 1..Len(run.pages) :
    (~run.pages[i].error /\ ~run.pages[j].error) => run.pages[i].rules = run.pages[j].rules

\* C18: with an ignore file that is missing, cannot be read or parsed, or
\* holds no rules array, the suppression step completes, the audit goes on
\* to its summary, and no finding is changed.
C18_BadIgnoreFileSuppressesNothing ==
  [][(pc = "applyIgnoreRules" /\ ignoreFile.kind # "ok") =>
       /\ pc' = "calculateSummary"
       /\ results' = results
       /\ \A e \in Entries : ~results[e[1]][e[2]].ignored]_vars

\* An audit with findings has returned although the ignore file could not
\* be parsed.
C18_Witness ==
  /\ pc = "returned"
  /\ ignoreFile.kind \in {"malformed", "norules"}
  /\ C15_Ran("applyIgnoreRules")
  /\ Entries # {}

\* The unique (text colour, background colour) pairs of the contrast entries.
C19_UniquePairs ==
  {<<results.colorContrast[i].textColor, results.colorContrast[i].backgroundColor>> :
     i \in 1..Len(results.colorContrast)}

\* C19: once the vision simulation has run, it has tested every unique
\* colour pair of the contrast results, and it reports findings only for
\* pairs it tested.
C19_VisionTestsEveryPair ==
  C15_Ran("checkVisionSimulation") =>
    /\ testedPairs(results.colorContrast) = Cardinality(C19_UniquePairs)
    /\ Len(results.visionSimulation) <= testedPairs(results.colorContrast)
    /\ \A i \in 1..Len(results.visionSimulation) :
         /\ results.visionSimulation[i].type = "vision_simulation_failure"
         /\ results.visionSimulation[i].severity = "high"

\* The status the claim gives a contrast entry under the level asked for:
\* FAIL exactly when the ratio is below the ratio required for that level.
C20_Status(x, level) ==
  IF getContrastRatio1000(parseColor(x.textColor), parseColor(x.backgroundColor))
       >= requiredRatio1000(isLargeText(x.fontSize, x.fontWeight), level)
  THEN "PASS" ELSE "FAIL"

\* C20: every colour combination analysed in a run is reported FAIL exactly
\* when its ratio is below the ratio the run's wcagLevel requires (AA: 4.5,
\* or 3 for large text; AAA: 7, or 4.5 for large text).
C20_LevelSelectsRequiredRatio ==
  \A p \in 1..Len(run.pages) :
    \A i \in 1..Len(run.pages[p].results.colorContrast) :
      LET x == run.pages[p].results.colorContrast[i] IN
      x.status # "ERROR" => x.status = C20_Status(x, options.wcagLevel)

\* C21: every text element the page read found over a background image
\* without a sufficient dark overlay has a manual-review finding of
\* severity high, and did not reach the contrast scoring: it stands behind
\* no colour combination.
C21_ManualReviewNeverScored ==
  \A i \in read.flagged :
    /\ \E k \in 1..Len(read.manualReviews) :
         /\ read.manualReviews[k].type = "text_over_image_manual_review"
         /\ read.manualReviews[k].severity = "high"
    /\ i \notin read.scored

\* C22: a run over several pages ends only with its reports generated and
\* every URL recorded; a page that failed is recorded with an error and an
\* all-zero summary.
C22_NoPageFailureAbortsRun ==
  /\ pc # "runAudit" => pc = "reported" /\ Len(run.pages) = run.urls
  /\ \A p \in 1..Len(run.pages) :
       run.pages[p].error => run.pages[p].summary = EmptySummary

\* C23: among the calls of waitIfNeeded that returned, any maxRequests + 1
\* consecutive ones span at least timeWindow milliseconds, so no interval
\* of timeWindow milliseconds holds more than maxRequests of them.
C23_AtMostMaxRequestsPerWindow ==
  \A i \in 1..Len(limiter.proceeded) :
    \A j \in 1..Len(limiter.proceeded) :
      j = i + limiter.maxRequests =>
        limiter.proceeded[j] - limiter.proceeded[i] >= limiter.timeWindow

\* C24: crawl visits at most maxPages URLs, calls crawlPage for no entry
\* deeper than maxDepth and for no URL twice, and the URLs it returns are
\* the URLs crawlPage was called for.
C24_CrawlWithinLimits ==
  /\ Cardinality(crawler.visitedUrls) <= crawler.maxPages
  /\ \A i \in 1..Len(crawler.loaded) : crawler.loaded[i].depth <= crawler.maxDepth
  /\ \A i, j \in 1..Len(crawler.loaded) :
       crawler.loaded[i].url = crawler.loaded[j].url => i = j
  /\ crawler.visitedUrls = {crawler.loaded[i].url : i \in 1..Len(crawler.loaded)}

\* A crawl has returned maxPages URLs with entries left in its queue, after
\* it passed over an entry.
C24_Witness ==
  /\ pc = "returned"
  /\ Cardinality(crawler.visitedUrls) = crawler.maxPages
  /\ Len(crawler.loaded) = 2
  /\ Len(crawler.urlsToVisit) > 0

\* C30: every turn of crawl's loop either takes an entry from the queue and
\* adds none, or adds one URL to the visited set; with the queue empty or
\* maxPages URLs visited the loop ends; and every crawl returns.
C30_CrawlTerminates ==
  /\ [][pc = "crawl" =>
          IF Len(crawler.urlsToVisit) = 0
             \/ Cardinality(crawler.visitedUrls) >= crawler.maxPages
          THEN pc' = "returned"
          ELSE /\ pc' = "crawl"
               /\ \/ /\ Len(crawler'.urlsToVisit) = Len(crawler.urlsToVisit) - 1
                     /\ crawler'.visitedUrls = crawler.visitedUrls
                  \/ /\ crawler.visitedUrls \subseteq crawler'.visitedUrls
                     /\ Cardinality(crawler'.visitedUrls)
                          = Cardinality(crawler.visitedUrls) + 1]_vars
  /\ <>(pc = "returned")

\* A crawl has returned although page loads failed and its site links back
\* to pages visited before.
C30_Witness ==
  /\ pc = "returned"
  /\ crawler.failures > 0
  /\ Len(crawler.loaded) >= 2

\* C25: the Structure module reports a missing top-level heading at most
\* once per page, and with severity critical.
C25_OneCriticalMissingHeading ==
  LET missing == SelectSeq(results.semanticHTML, LAMBDA x : x.type = "missing_h1")
  IN /\ Len(missing) <= 1
     /\ \A i \in 1..Len(missing) : missing[i].severity = "critical"

\* C26: when checkARIALabels is done, the ARIA issues hold an issue other
\* than a missing name for exactly the elements whose role is not an
\* allowed role.
C26_InvalidRolesReported ==
  pc = "returned" =>
    \A i \in 1..Len(read.elements) :
      LET element == read.elements[i] IN
      ~validateARIA(element).valid
        <=> \E k \in 1..Len(results.ariaLabels) :
              /\ results.ariaLabels[k].ctxSelector = element.selector
              /\ results.ariaLabels[k].type # "missing_accessible_name"

\* The ancestor walks of the background resolver visit at most 30 elements
\* each, on chains of up to 32 elements.
C27_WalksBounded == read.visited <= IterationCeiling

\* C27: the loops of the core stop at a fixed ceiling: as the ancestor
\* walks visit at most 30 elements, shouldIgnore has looked at no more than
\* 30 rules when it returns.
C27_RuleMatchingBounded ==
  verdict # "none" => rulesExamined(probe.issue, probe.rules, now) <= IterationCeiling

\* The rule list in reverse order.
C28_Reverse(rules) == [i \in 1..Len(rules) |-> rules[Len(rules) + 1 - i]]

\* C28: shouldIgnore suppresses a finding exactly when some rule of the
\* list that has not run out matches it, wherever the rule stands: the
\* reversed list gives the same answer.
C28_AnyMatchingRuleSuppresses ==
  verdict # "none" =>
    /\ (verdict = "ignore") =
         (\E i \in 1..Len(probe.rules) : RuleApplies(probe.rules[i], probe.issue, now))
    /\ (verdict = "ignore") = shouldIgnore(probe.issue, C28_Reverse(probe.rules), now)

\* A finding was suppressed by the second rule of a list whose first rule
\* does not match it.
C28_Witness ==
  /\ verdict = "ignore"
  /\ Len(probe.rules) = 2
  /\ ~RuleApplies(probe.rules[1], probe.issue, now)
  /\ RuleApplies(probe.rules[2], probe.issue, now)

\* The rule has no scope, or one that is not global, domain or url.
C29_Unscoped(r) == r.scope \notin {"global", "domain", "url"}

\* The rule and the finding carry the same ID, letter case aside.
C29_SameId(r, issue) ==
  /\ r.id # <<>> /\ r.id # Undefined
  /\ issue.id # <<>>
  /\ ToLowerCase(r.id) = ToLowerCase(issue.id)

====
